---- MODULE Spec2Model ----
(***************************************************************************)
(* Model of the generic indexed min-heap of data-structures/heap/heap.c.   *)
(* A heap is a record with the fields of heap_t that the operations read   *)
(* or write: the pair store pty_elts (slots 0..count-1), count, num_elts   *)
(* and the hash table ht that maps an element to its slot.  Every function *)
(* of heap.c is an operator from a heap record to a heap record,           *)
(* translated statement by statement.                                      *)
(***************************************************************************)
EXTENDS Integers, Sequences, FiniteSets, TLC

(* ------------------------------ bounds --------------------------------- *)

\* number of distinct element bit patterns a caller uses
NumElts == 3

\* priorities are the values 0..MaxPty
MaxPty == 1

\* largest min_num passed to heap_init
MaxMinNum == 2

\* number of heap_push calls of a run in which the calls are counted
MaxOps == 4

\* largest size and largest alignment, in bytes, of a priority or an element
MaxSize == 4

\* number of vertices of a graph
NumVts == 3

\* edge weights are the values 0..MaxWt
MaxWt == 1

Elts == 1..NumElts

Ptys == 0..MaxPty

(* --------------------------- memory values ----------------------------- *)

\* the null pointer returned by a failed hash table search / heap_search
NULL == -1

\* content of a pair-sized block that malloc/realloc returned and that was
\* never written
Uninit == [pty |-> -1, elt |-> 0]

\* size_t arithmetic is modulo SzMod (a width of 5 bits stands for the
\* width of size_t, so that a store can grow until its doubling overflows)
SzMod == 2^5

sub_sz(a, b) == (a - b + SzMod) % SzMod

\* comparison function of priorities passed to heap_init
cmp_pty(a, b) == a - b

(* ---------------- hash table (collaborator of the heap) ---------------- *)

\* a table is a function from its keys to slot numbers

ht_init == [k \in {} |-> 0]

ht_insert(ht, key, ix) ==
  [k \in (DOMAIN ht) \cup {key} |-> IF k = key THEN ix ELSE ht[k]]

ht_search(ht, key) == IF key \in DOMAIN ht THEN ht[key] ELSE NULL

ht_remove(ht, key) == [k \in (DOMAIN ht) \ {key} |-> ht[k]]

(* ------------------------------- heap.c -------------------------------- *)

\* the sum of two sizes; the process ends instead if the sum exceeds the
\* largest size_t value, which the sums of sizes up to MaxSize do not reach
add_sz_perror(a, b) == a + b

\* the product of two sizes when it is a size_t value
mul_sz_perror(a, b) == a * b

\* the product of two sizes exceeds the largest size_t value: mul_sz_perror
\* ends the process instead of returning
mul_sz_overflows(a, b) == a * b > SzMod - 1

\* the value of a C comparison used as a number
as_int(b) == IF b THEN 1 ELSE 0

\* the layout fields that heap_init computes from pty_size and elt_size
heap_init_layout(pty_size, elt_size) ==
  LET elt_offset ==
        IF pty_size <= elt_size THEN elt_size
        ELSE LET elt_rem == pty_size % elt_size
             IN add_sz_perror(pty_size,
                              as_int(elt_rem > 0) * (elt_size - elt_rem))
      pty_rem == add_sz_perror(elt_offset, elt_size) % pty_size
  IN [pty_size   |-> pty_size,
      elt_size   |-> elt_size,
      elt_offset |-> elt_offset,
      pair_size  |-> add_sz_perror(elt_offset + elt_size,
                                   as_int(pty_rem > 0) * (pty_size - pty_rem))]

\* the layout of heap_align with the padding added whether or not the
\* remainder is zero
heap_align_layout_pad(l, pty_alignment, elt_alignment) ==
  LET elt_offset ==
        IF l.pty_size <= elt_alignment THEN elt_alignment
        ELSE LET elt_rem == l.pty_size % elt_alignment
             IN add_sz_perror(l.pty_size, elt_alignment - elt_rem)
      pty_rem == add_sz_perror(elt_offset, l.elt_size) % pty_alignment
  IN [l EXCEPT !.elt_offset = elt_offset,
               !.pair_size =
                  add_sz_perror(elt_offset + l.elt_size,
                                pty_alignment - pty_rem)]

\* the layout fields that heap_align computes from the layout l of the heap
\* and the alignments
heap_align_layout(l, pty_alignment, elt_alignment) ==
  LET elt_offset ==
        IF l.pty_size <= elt_alignment THEN elt_alignment
        ELSE LET elt_rem == l.pty_size % elt_alignment
             IN add_sz_perror(l.pty_size,
                              as_int(elt_rem > 0) * (elt_alignment - elt_rem))
      pty_rem == add_sz_perror(elt_offset, l.elt_size) % pty_alignment
  IN [l EXCEPT !.elt_offset = elt_offset,
               !.pair_size =
                  add_sz_perror(elt_offset + l.elt_size,
                                as_int(pty_rem > 0)
                                   * (pty_alignment - pty_rem))]

\* h->buf is scratch memory: heapify_up and heapify_down write its first
\* half and swap its second half before they read it, and nothing reads it
\* across calls; its content is the value buf of the operators below
heap_init(min_num) ==
  [count    |-> min_num,
   num_elts |-> 0,
   pty_elts |-> [i \in 0..(min_num - 1) |-> Uninit],
   ht       |-> ht_init]

\* a new block in place of the reallocated one: no slot keeps its content
realloc_pty_elts_fresh(pe, old_count, new_count) ==
  [i \in 0..(new_count - 1) |-> Uninit]

\* realloc_perror(h->pty_elts, count, pair_size): the old slots keep their
\* content, the new ones are not written
realloc_pty_elts(pe, old_count, new_count) ==
  [i \in 0..(new_count - 1) |-> IF i < old_count THEN pe[i] ELSE Uninit]

swap(h, i, j) ==
  IF i = j THEN h
  ELSE LET buf == h.pty_elts[i]
           pe  == [h.pty_elts EXCEPT ![i] = h.pty_elts[j], ![j] = buf]
       IN [h EXCEPT !.pty_elts = pe,
                    !.ht = ht_insert(ht_insert(h.ht, pe[i].elt, i),
                                     pe[j].elt, j)]

\* half_swap that copies the pair and leaves the hash table alone
half_swap_noindex(h, t, s) ==
  IF s = t THEN h ELSE [h EXCEPT !.pty_elts[t] = h.pty_elts[s]]

\* half_swap that copies pty_size instead of pair_size bytes: the priority
\* moves and the element at the target slot stays
half_swap_pty(h, t, s) ==
  IF s = t THEN h
  ELSE [h EXCEPT !.pty_elts[t].pty = h.pty_elts[s].pty,
                 !.ht = ht_insert(h.ht, h.pty_elts[t].elt, t)]

half_swap(h, t, s) ==
  IF s = t THEN h
  ELSE [h EXCEPT !.pty_elts[t] = h.pty_elts[s],
                 !.ht = ht_insert(h.ht, h.pty_elts[s].elt, t)]

\* the while loop of heapify_up that takes slot ix - 1 for the parent slot
RECURSIVE heapify_up_loop_prev(_, _, _)
heapify_up_loop_prev(h, ix, buf) ==
  IF ix > 0
  THEN LET ju == ix - 1
       IN IF cmp_pty(h.pty_elts[ju].pty, buf.pty) > 0
          THEN heapify_up_loop_prev(half_swap(h, ix, ju), ju, buf)
          ELSE [h |-> h, ix |-> ix]
  ELSE [h |-> h, ix |-> ix]

\* the while loop of heapify_up that also moves a parent of equal priority
RECURSIVE heapify_up_loop_eq(_, _, _)
heapify_up_loop_eq(h, ix, buf) ==
  IF ix > 0
  THEN LET ju == (ix - 1) \div 2
       IN IF cmp_pty(h.pty_elts[ju].pty, buf.pty) >= 0
          THEN heapify_up_loop_eq(half_swap(h, ix, ju), ju, buf)
          ELSE [h |-> h, ix |-> ix]
  ELSE [h |-> h, ix |-> ix]

\* the while loop of heapify_up; the result is the heap and the final ix
RECURSIVE heapify_up_loop(_, _, _)
heapify_up_loop(h, ix, buf) ==
  IF ix > 0
  THEN LET ju == (ix - 1) \div 2
       IN IF cmp_pty(h.pty_elts[ju].pty, buf.pty) > 0
          THEN heapify_up_loop(half_swap(h, ix, ju), ju, buf)
          ELSE [h |-> h, ix |-> ix]
  ELSE [h |-> h, ix |-> ix]

\* heapify_up without the final hash table insert
heapify_up_noreg(h, i) ==
  LET buf == h.pty_elts[i]
      r   == heapify_up_loop(h, i, buf)
  IN [r.h EXCEPT !.pty_elts[r.ix] = buf]

heapify_up(h, i) ==
  LET buf == h.pty_elts[i]
      r   == heapify_up_loop(h, i, buf)
  IN [r.h EXCEPT !.pty_elts[r.ix] = buf,
                 !.ht = ht_insert(r.h.ht, buf.elt, r.ix)]

\* the while loop of heapify_down with a strict comparison of the children:
\* the right child moves up when the two have the same priority
RECURSIVE heapify_down_loop_strict(_, _, _)
heapify_down_loop_strict(h, ix, buf) ==
  IF ix + 2 <= sub_sz(sub_sz(h.num_elts, 1), ix)
  THEN LET jl == 2 * ix + 1
           jr == 2 * ix + 2
       IN IF /\ cmp_pty(buf.pty, h.pty_elts[jl].pty) > 0
             /\ cmp_pty(h.pty_elts[jl].pty, h.pty_elts[jr].pty) < 0
          THEN heapify_down_loop_strict(half_swap(h, ix, jl), jl, buf)
          ELSE IF cmp_pty(buf.pty, h.pty_elts[jr].pty) > 0
               THEN heapify_down_loop_strict(half_swap(h, ix, jr), jr, buf)
               ELSE [h |-> h, ix |-> ix]
  ELSE [h |-> h, ix |-> ix]

\* the while loop of heapify_down
RECURSIVE heapify_down_loop(_, _, _)
heapify_down_loop(h, ix, buf) ==
  IF ix + 2 <= sub_sz(sub_sz(h.num_elts, 1), ix)
  THEN LET jl == 2 * ix + 1
           jr == 2 * ix + 2
       IN IF /\ cmp_pty(buf.pty, h.pty_elts[jl].pty) > 0
             /\ cmp_pty(h.pty_elts[jl].pty, h.pty_elts[jr].pty) <= 0
          THEN heapify_down_loop(half_swap(h, ix, jl), jl, buf)
          ELSE IF cmp_pty(buf.pty, h.pty_elts[jr].pty) > 0
               THEN heapify_down_loop(half_swap(h, ix, jr), jr, buf)
               ELSE [h |-> h, ix |-> ix]
  ELSE [h |-> h, ix |-> ix]

\* heapify_down_last without the comparison with an only child
heapify_down_last_skip(h, ix, buf) == [h |-> h, ix |-> ix]

\* heapify_down_last that also moves an only child of equal priority
heapify_down_last_eq(h, ix, buf) ==
  IF ix + 1 = sub_sz(sub_sz(h.num_elts, 1), ix)
  THEN LET jl == 2 * ix + 1
       IN IF cmp_pty(buf.pty, h.pty_elts[jl].pty) >= 0
          THEN [h |-> half_swap(h, ix, jl), ix |-> jl]
          ELSE [h |-> h, ix |-> ix]
  ELSE [h |-> h, ix |-> ix]

\* the if statement after the loop of heapify_down: exactly one child
heapify_down_last(h, ix, buf) ==
  IF ix + 1 = sub_sz(sub_sz(h.num_elts, 1), ix)
  THEN LET jl == 2 * ix + 1
       IN IF cmp_pty(buf.pty, h.pty_elts[jl].pty) > 0
          THEN [h |-> half_swap(h, ix, jl), ix |-> jl]
          ELSE [h |-> h, ix |-> ix]
  ELSE [h |-> h, ix |-> ix]

\* heapify_down that registers the buffered element at the slot it started
\* from instead of the slot where it came to rest
heapify_down_reg_start(h, i) ==
  LET buf == h.pty_elts[i]
      r1  == heapify_down_loop(h, i, buf)
      r   == heapify_down_last(r1.h, r1.ix, buf)
  IN [r.h EXCEPT !.pty_elts[r.ix] = buf,
                 !.ht = ht_insert(r.h.ht, buf.elt, i)]

heapify_down(h, i) ==
  LET buf == h.pty_elts[i]
      r1  == heapify_down_loop(h, i, buf)
      r   == heapify_down_last(r1.h, r1.ix, buf)
  IN [r.h EXCEPT !.pty_elts[r.ix] = buf,
                 !.ht = ht_insert(r.h.ht, buf.elt, r.ix)]

\* the growth step that adds one slot instead of doubling the capacity
heap_grow_one(h) ==
  IF h.count = h.num_elts
  THEN [h EXCEPT !.count = h.count + 1,
                 !.pty_elts = realloc_pty_elts(h.pty_elts, h.count,
                                               h.count + 1)]
  ELSE h

\* the growth step of heap_push
heap_grow(h) ==
  IF h.count = h.num_elts
  THEN [h EXCEPT !.count = mul_sz_perror(2, h.count),
                 !.pty_elts = realloc_pty_elts(h.pty_elts, h.count,
                                               mul_sz_perror(2, h.count))]
  ELSE h

\* heap_push that searches the hash table first and leaves the heap alone
\* if the element is in it
heap_push_checked(h, pty, elt) ==
  IF ht_search(h.ht, elt) # NULL THEN h
  ELSE LET ix == h.num_elts
           h1 == heap_grow(h)
           h2 == [h1 EXCEPT !.pty_elts[ix] = [pty |-> pty, elt |-> elt],
                            !.ht = ht_insert(h1.ht, elt, ix),
                            !.num_elts = h1.num_elts + 1]
       IN heapify_up(h2, ix)

heap_push(h, pty, elt) ==
  LET ix == h.num_elts
      h1 == heap_grow(h)
      h2 == [h1 EXCEPT !.pty_elts[ix] = [pty |-> pty, elt |-> elt],
                       !.ht = ht_insert(h1.ht, elt, ix),
                       !.num_elts = h1.num_elts + 1]
  IN heapify_up(h2, ix)

\* a call of heap_push that ends the process on overflow only after it has
\* registered the element and incremented num_elts
heap_push_call_late(h, pty, elt) ==
  IF h.count = h.num_elts /\ mul_sz_overflows(2, h.count)
  THEN [h      |-> [h EXCEPT !.ht = ht_insert(h.ht, elt, h.num_elts),
                             !.num_elts = h.num_elts + 1],
        exited |-> TRUE]
  ELSE [h |-> heap_push(h, pty, elt), exited |-> FALSE]

\* a call of heap_push: the heap after it, and whether mul_sz_perror ended
\* the process, which it does before count is assigned
heap_push_call(h, pty, elt) ==
  IF h.count = h.num_elts /\ mul_sz_overflows(2, h.count)
  THEN [h |-> h, exited |-> TRUE]
  ELSE [h |-> heap_push(h, pty, elt), exited |-> FALSE]

\* the slot number stands for the pointer pty_ptr(h, ix)
heap_search(h, elt) ==
  LET ix == ht_search(h.ht, elt)
  IN IF ix # NULL THEN ix ELSE NULL

\* heap_update_at that copies pair_size instead of pty_size bytes from pty
heap_update_at_pair(h, pty, ix) ==
  LET h1 == [h EXCEPT !.pty_elts[ix] = [pty |-> pty, elt |-> Uninit.elt]]
  IN heapify_down(heapify_up(h1, ix), ix)

\* heap_update after the slot number ix has been read through the pointer
\* returned by the hash table search
heap_update_at(h, pty, ix) ==
  LET h1 == [h EXCEPT !.pty_elts[ix].pty = pty]
  IN heapify_down(heapify_up(h1, ix), ix)

\* heap_update of an element in the heap
heap_update(h, pty, elt) == heap_update_at(h, pty, ht_search(h.ht, elt))

\* heap_pop that copies the root pair out after the swap
heap_pop_late_copy(h, pty, elt) ==
  IF h.num_elts = 0
  THEN [h |-> h, pty |-> pty, elt |-> elt]
  ELSE LET h1 == swap(h, 0, h.num_elts - 1)
           o  == h1.pty_elts[0]
           h2 == [h1 EXCEPT !.ht = ht_remove(h1.ht, o.elt),
                            !.num_elts = h1.num_elts - 1]
       IN [h   |-> IF h2.num_elts > 0 THEN heapify_down(h2, 0) ELSE h2,
           pty |-> o.pty,
           elt |-> o.elt]

\* heap_pop without the decrement of num_elts
heap_pop_keep_num(h, pty, elt) ==
  IF h.num_elts = 0
  THEN [h |-> h, pty |-> pty, elt |-> elt]
  ELSE LET o  == h.pty_elts[0]
           h1 == swap(h, 0, h.num_elts - 1)
           h2 == [h1 EXCEPT !.ht = ht_remove(h1.ht, o.elt)]
       IN [h   |-> IF h2.num_elts > 0 THEN heapify_down(h2, 0) ELSE h2,
           pty |-> o.pty,
           elt |-> o.elt]

\* heap_pop without the removal of the popped element from the hash table
heap_pop_keep_key(h, pty, elt) ==
  IF h.num_elts = 0
  THEN [h |-> h, pty |-> pty, elt |-> elt]
  ELSE LET o  == h.pty_elts[0]
           h1 == swap(h, 0, h.num_elts - 1)
           h2 == [h1 EXCEPT !.num_elts = h1.num_elts - 1]
       IN [h   |-> IF h2.num_elts > 0 THEN heapify_down(h2, 0) ELSE h2,
           pty |-> o.pty,
           elt |-> o.elt]

\* heap_pop that copies slot 0 out before it tests num_elts
heap_pop_early_copy(h, pty, elt) ==
  LET o == h.pty_elts[0]
  IN IF h.num_elts = 0
     THEN [h |-> h, pty |-> o.pty, elt |-> o.elt]
     ELSE LET h1 == swap(h, 0, h.num_elts - 1)
              h2 == [h1 EXCEPT !.ht = ht_remove(h1.ht, o.elt),
                               !.num_elts = h1.num_elts - 1]
          IN [h   |-> IF h2.num_elts > 0 THEN heapify_down(h2, 0) ELSE h2,
              pty |-> o.pty,
              elt |-> o.elt]

\* the result is the heap and the content of the caller's pty and elt blocks
heap_pop(h, pty, elt) ==
  IF h.num_elts = 0
  THEN [h |-> h, pty |-> pty, elt |-> elt]
  ELSE LET o  == h.pty_elts[0]
           h1 == swap(h, 0, h.num_elts - 1)
           h2 == [h1 EXCEPT !.ht = ht_remove(h1.ht, o.elt),
                            !.num_elts = h1.num_elts - 1]
       IN [h   |-> IF h2.num_elts > 0 THEN heapify_down(h2, 0) ELSE h2,
           pty |-> o.pty,
           elt |-> o.elt]

\* the value of a pointer to a block obtained from malloc_perror
Alloc == 0

\* the loop of heap_free that calls free_elt on every slot of the store,
\* in use or not
RECURSIVE free_elts_count(_, _)
free_elts_count(h, i) ==
  IF i < h.count
  THEN <<[fn |-> "free_elt", arg |-> h.pty_elts[i].elt]>>
          \o free_elts_count(h, i + 1)
  ELSE <<>>

\* the loop of heap_free: the calls of free_elt, in order
RECURSIVE free_elts(_, _)
free_elts(h, i) ==
  IF i < h.num_elts
  THEN <<[fn |-> "free_elt", arg |-> h.pty_elts[i].elt]>>
          \o free_elts(h, i + 1)
  ELSE <<>>

\* r holds the fields free_elt (TRUE if not NULL), buf and pty_elts (the
\* pointers) of heap_t and the calls made to release memory; the result is
\* the heap, with no slot of the released store left, and these fields
heap_free(h, r) ==
  LET hooks == IF r.free_elt THEN free_elts(h, 0) ELSE <<>>
  IN [h   |-> [h EXCEPT !.pty_elts = [i \in {} |-> Uninit],
                        !.ht = ht_init],
      rel |-> [r EXCEPT !.calls =
                           r.calls \o hooks
                              \o <<[fn |-> "free_buf", arg |-> r.buf],
                                   [fn |-> "free_pty_elts", arg |-> r.pty_elts],
                                   [fn |-> "ht_free", arg |-> 0]>>,
                        !.buf = NULL,
                        !.pty_elts = NULL]]

(* -------------------------- dijkstra-uint64.c -------------------------- *)

\* uint64_t values are kept modulo U64Mod (a width of 6 bits stands for
\* the 64 bits of uint64_t)
U64Mod == 2 ^ 6

\* int values are the IntMod values from -IntMod/2 to IntMod/2 - 1 (a width
\* of 3 bits stands for the 32 bits of int, half the width of uint64_t)
IntMod == 2 ^ 3

\* the conversion of a uint64_t value to int keeps the value modulo IntMod
to_int(x) ==
  LET r == x % IntMod
  IN IF r >= IntMod \div 2 THEN r - IntMod ELSE r

\* the difference of two uint64_t values
sub_uint64(a, b) == (a - b + U64Mod) % U64Mod

\* the largest value of an unsigned type of the width of int: num_vts is
\* asserted to be below it
l_num_vts == IntMod - 1

\* cmp_vt_fn that returns the difference in a signed type of half the
\* width of int
cmp_vt_fn_short(a, b) ==
  LET m == IntMod \div 2
      r == sub_uint64(a, b) % m
  IN IF r >= m \div 2 THEN r - m ELSE r

\* the comparison of vertices passed to the heap
cmp_vt_fn(a, b) == to_int(sub_uint64(a, b))

\* cmp_uint64_fn of the driver of prim_uint64
prim_cmp_uint64_fn(wt_a, wt_b) == to_int(sub_uint64(wt_a, wt_b))

\* not reached: the largest uint64_t value
nr == U64Mod - 1

\* the vertices of a graph of num_vts vertices
Vts == 0..(NumVts - 1)

\* the weight functions that the drivers pass for uint64_t weights
init_uint64_fn == 0

add_uint64_fn(wt_a, wt_b) == (wt_a + wt_b) % U64Mod

cmp_uint64_fn(wt_a, wt_b) ==
  IF wt_a > wt_b THEN 1 ELSE IF wt_a < wt_b THEN -1 ELSE 0

\* The state of a run of dijkstra_uint64 is a record d: the adjacency list
\* adj (for every vertex the sequence of its edges, each a target v and a
\* weight wt), start, the arrays dist, prev and in_heap, the heap h of
\* (weight, vertex) pairs, the popped vertex u, the index i of the for loop
\* and the position pc.  The heap of heap-uint32.h
\* is the indexed min-heap of the operators above.

\* the position after the test of the for loop with index i (edges are
\* numbered from 1): in the loop body, or back at the test of the while loop
dijkstra_for(d, i) ==
  [d EXCEPT !.i = i,
            !.pc = IF i <= Len(d.adj[d.u]) THEN "for" ELSE "loop"]

\* the body of the for loop without the test of prev[v] against nr
dijkstra_edge_cmp(d) ==
  LET v      == d.adj[d.u][d.i].v
      wt_buf == add_uint64_fn(d.dist[d.u], d.adj[d.u][d.i].wt)
  IN IF cmp_uint64_fn(d.dist[v], wt_buf) > 0
     THEN dijkstra_for(
             [d EXCEPT !.dist[v] = wt_buf,
                       !.prev[v] = d.u,
                       !.h = IF d.in_heap[v]
                             THEN heap_update(d.h, wt_buf, v)
                             ELSE heap_push(d.h, wt_buf, v),
                       !.in_heap[v] = TRUE],
             d.i + 1)
     ELSE dijkstra_for(d, d.i + 1)

\* the body of the for loop that does not call heap update for a vertex
\* in the heap
dijkstra_edge_stale(d) ==
  LET v      == d.adj[d.u][d.i].v
      wt_buf == add_uint64_fn(d.dist[d.u], d.adj[d.u][d.i].wt)
  IN IF d.prev[v] = nr \/ cmp_uint64_fn(d.dist[v], wt_buf) > 0
     THEN dijkstra_for(
             [d EXCEPT !.dist[v] = wt_buf,
                       !.prev[v] = d.u,
                       !.h = IF d.in_heap[v]
                             THEN d.h
                             ELSE heap_push(d.h, wt_buf, v),
                       !.in_heap[v] = TRUE],
             d.i + 1)
     ELSE dijkstra_for(d, d.i + 1)

\* the body of the for loop that also relaxes an edge that gives v the
\* weight it has
dijkstra_edge_geq(d) ==
  LET v      == d.adj[d.u][d.i].v
      wt_buf == add_uint64_fn(d.dist[d.u], d.adj[d.u][d.i].wt)
  IN IF d.prev[v] = nr \/ cmp_uint64_fn(d.dist[v], wt_buf) >= 0
     THEN dijkstra_for(
             [d EXCEPT !.dist[v] = wt_buf,
                       !.prev[v] = d.u,
                       !.h = IF d.in_heap[v]
                             THEN heap_update(d.h, wt_buf, v)
                             ELSE heap_push(d.h, wt_buf, v),
                       !.in_heap[v] = TRUE],
             d.i + 1)
     ELSE dijkstra_for(d, d.i + 1)

\* the body of the for loop for the i-th edge of the popped vertex u, and
\* the increment and test of i
dijkstra_edge(d) ==
  LET v      == d.adj[d.u][d.i].v
      wt_buf == add_uint64_fn(d.dist[d.u], d.adj[d.u][d.i].wt)
  IN IF d.prev[v] = nr \/ cmp_uint64_fn(d.dist[v], wt_buf) > 0
     THEN dijkstra_for(
             [d EXCEPT !.dist[v] = wt_buf,
                       !.prev[v] = d.u,
                       !.h = IF d.in_heap[v]
                             THEN heap_update(d.h, wt_buf, v)
                             ELSE heap_push(d.h, wt_buf, v),
                       !.in_heap[v] = TRUE],
             d.i + 1)
     ELSE dijkstra_for(d, d.i + 1)

\* dijkstra_uint64 up to the first test of the while loop; u and i are not
\* read before they are written
dijkstra_init(adj, start) ==
  LET dist == [v \in Vts |-> init_uint64_fn]
  IN [adj     |-> adj,
      start   |-> start,
      dist    |-> dist,
      prev    |-> [v \in Vts |-> IF v = start THEN start ELSE nr],
      in_heap |-> [v \in Vts |-> v = start],
      h       |-> heap_push(heap_init(1), dist[start], start),
      u       |-> 0,
      i       |-> 0,
      pc      |-> "loop"]

\* the pop at the start of an iteration that leaves in_heap[u] set
dijkstra_pop_stale(d) ==
  LET r == heap_pop(d.h, Uninit.pty, d.u)
  IN dijkstra_for([d EXCEPT !.h = r.h,
                            !.u = r.elt],
                  1)

\* the pop at the start of an iteration of the while loop, and the first
\* test of the for loop
dijkstra_pop(d) ==
  LET r == heap_pop(d.h, Uninit.pty, d.u)
  IN dijkstra_for([d EXCEPT !.h = r.h,
                            !.in_heap[r.elt] = FALSE,
                            !.u = r.elt],
                  1)

\* dijkstra_uint64 after the while loop
dijkstra_return(d) ==
  [d EXCEPT !.h = heap_free(d.h, [free_elt |-> FALSE, buf |-> Alloc,
                                  pty_elts |-> Alloc, calls |-> <<>>]).h,
            !.pc = "done"]

(* ---------------------- reference priority queue ----------------------- *)

\* a list of pairs kept sorted by priority, pairs of the same priority by
\* element

RECURSIVE ref_insert(_, _)
ref_insert(q, pr) ==
  IF q = <<>> THEN <<pr>>
  ELSE IF \/ Head(q).pty < pr.pty
          \/ Head(q).pty = pr.pty /\ Head(q).elt <= pr.elt
       THEN <<Head(q)>> \o ref_insert(Tail(q), pr)
       ELSE <<pr>> \o q

ref_delete(q, elt) == SelectSeq(q, LAMBDA pr : pr.elt # elt)

ref_push(q, pty, elt) == ref_insert(q, [pty |-> pty, elt |-> elt])

ref_update(q, pty, elt) ==
  ref_insert(ref_delete(q, elt), [pty |-> pty, elt |-> elt])

\* TRUE iff no second pair has the priority of the head
ref_unique_min(q) == Len(q) < 2 \/ q[2].pty # q[1].pty

(* --------------------------- state machine ----------------------------- *)

VARIABLES
  h,        \* the heap
  out,      \* the caller's pty and elt blocks after heap_pop; the caller
            \* sets them to CallerInit around every other call
  ret,      \* the pointer returned if the last call was heap_search, or NULL
  last,     \* the last call: operation, arguments, num_elts on entry
  proc,     \* "running", "trapped" after a null pointer dereference, or
            \* "exited" after mul_sz_perror ended the process
  given,    \* element -> priority last given by push/update, NULL if none
  oracle,   \* the reference priority queue run on the same calls
  oout,     \* the pair the reference queue popped if the last call was a pop
  fh,       \* a heap initialized when h was last emptied, run on the same calls
  fout,     \* the pty and elt blocks of the pops on fh
  fret,     \* the result of the last search on fh
  emptied,  \* TRUE once pops have emptied h
  npush,    \* number of heap_push calls
  npop,     \* number of heap_pop calls on a non-empty heap
  rel,      \* the fields free_elt, buf and pty_elts of the heap and the
            \* calls made to release memory
  lay,      \* the fields pty_size, elt_size, elt_offset and pair_size of the
            \* heap and the alignments they were computed for
  dj,       \* the state of a run of dijkstra_uint64
  djcalls,  \* per vertex, the number of heap pushes and of heap pops of
            \* the run
  cmpcall   \* the arguments of a call of a comparison function, the
            \* function called and its result

heapvars == <<h, out, ret, last, proc>>

refvars == <<given, oracle, oout>>

freshvars == <<fh, fout, fret, emptied>>

countvars == <<npush, npop>>

freevars == <<rel>>

\* the variables that only the specifications after SpecMisuse change
layoutvars == <<lay>>

dijkstravars == <<dj, djcalls>>

comparevars == <<cmpcall>>

restvars == <<freevars, layoutvars, dijkstravars, comparevars>>

vars == <<heapvars, refvars, freshvars, countvars, restvars>>

\* the fields free_elt, buf and pty_elts after heap_init, with the hook f
\* the layout after heap_init, which aligns to the sizes themselves
LayInit(pty_size, elt_size) ==
  [size          |-> heap_init_layout(pty_size, elt_size),
   pty_alignment |-> pty_size,
   elt_alignment |-> elt_size]

\* the value of dj when dijkstra_uint64 is not called
DjIdle == [pc |-> "idle"]

\* the value of cmpcall when no comparison function is called
CmpIdle == [a |-> 0, b |-> 0, fn |-> "none", r |-> 0]

\* no heap push and no heap pop was made for any vertex
DjCallsInit == [pushes |-> [v \in Vts |-> 0], pops |-> [v \in Vts |-> 0]]

RelInit(f) ==
  [free_elt |-> f, buf |-> Alloc, pty_elts |-> Alloc, calls |-> <<>>]

\* the content of the caller's blocks when they do not hold a popped pair
CallerInit == [pty |-> 0, elt |-> 0]

\* the content of oout when it does not hold a popped pair
RefInit == [pty |-> 0, elt |-> 0, uniq |-> TRUE]

Call(op, pty, elt) == [op |-> op, pty |-> pty, elt |-> elt, n |-> h.num_elts]

Init ==
  /\ \E m \in 1..MaxMinNum : h = heap_init(m)
  /\ out = CallerInit
  /\ ret = NULL
  /\ last = [op |-> "init", pty |-> 0, elt |-> 0, n |-> 0]
  /\ proc = "running"
  /\ given = [e \in Elts |-> NULL]
  /\ oracle = <<>>
  /\ oout = RefInit
  /\ fh = heap_init(1)
  /\ fout = CallerInit
  /\ fret = NULL
  /\ emptied = FALSE
  /\ npush = 0
  /\ npop = 0
  /\ rel = RelInit(FALSE)
  /\ lay = LayInit(1, 1)
  /\ dj = DjIdle
  /\ djcalls = DjCallsInit
  /\ cmpcall = CmpIdle

(* the calls on the heap *)

\* heap_push of an element that is not in the heap
Push(pty, elt) ==
  /\ proc = "running"
  /\ heap_search(h, elt) = NULL
  /\ LET r == heap_push_call(h, pty, elt)
     IN /\ h' = r.h
        /\ proc' = IF r.exited THEN "exited" ELSE proc
  /\ ret' = NULL
  /\ last' = Call("push", pty, elt)
  /\ out' = CallerInit

\* heap_update of an element that is in the heap
Update(pty, elt) ==
  /\ proc = "running"
  /\ heap_search(h, elt) # NULL
  /\ h' = heap_update(h, pty, elt)
  /\ ret' = NULL
  /\ last' = Call("update", pty, elt)
  /\ out' = CallerInit
  /\ UNCHANGED proc

\* heap_pop, on an empty or a non-empty heap
Pop ==
  /\ proc = "running"
  /\ LET r == heap_pop(h, out.pty, out.elt)
     IN /\ h' = r.h
        /\ out' = [pty |-> r.pty, elt |-> r.elt]
  /\ ret' = NULL
  /\ last' = Call("pop", 0, 0)
  /\ UNCHANGED proc

\* heap_search of any element
Search(elt) ==
  /\ proc = "running"
  /\ ret' = heap_search(h, elt)
  /\ last' = Call("search", 0, elt)
  /\ out' = CallerInit
  /\ UNCHANGED <<h, proc>>

(* the same calls on the reference queue *)

RefSearch ==
  /\ oout' = RefInit
  /\ UNCHANGED <<given, oracle>>

RefPush(pty, elt) ==
  /\ given' = [given EXCEPT ![elt] = pty]
  /\ oracle' = ref_push(oracle, pty, elt)
  /\ oout' = RefInit

RefUpdate(pty, elt) ==
  /\ given' = [given EXCEPT ![elt] = pty]
  /\ oracle' = ref_update(oracle, pty, elt)
  /\ oout' = RefInit

\* the reference pop yields the head of the list; when several pairs have
\* the minimal priority the list then drops the pair of the element that the
\* heap popped, so that both hold the same elements for the next calls
RefPop ==
  IF oracle = <<>>
  THEN /\ oout' = RefInit
       /\ UNCHANGED <<given, oracle>>
  ELSE /\ given' = [given EXCEPT ![out'.elt] = NULL]
       /\ oracle' = ref_delete(oracle, out'.elt)
       /\ oout' = [pty |-> Head(oracle).pty, elt |-> Head(oracle).elt,
                   uniq |-> ref_unique_min(oracle)]

(* the same calls on the heap initialized when h was last emptied *)

FreshPush(pty, elt) ==
  /\ fh' = heap_push(fh, pty, elt)
  /\ fout' = CallerInit
  /\ fret' = NULL
  /\ UNCHANGED emptied

FreshUpdate(pty, elt) ==
  /\ fh' = heap_update(fh, pty, elt)
  /\ fout' = CallerInit
  /\ fret' = NULL
  /\ UNCHANGED emptied

\* a pop that empties h is followed by the initialization of a new heap fh
FreshPop ==
  LET r == heap_pop(fh, fout.pty, fout.elt)
      e == h.num_elts > 0 /\ h'.num_elts = 0
  IN /\ emptied' = (emptied \/ e)
     /\ fret' = NULL
     /\ IF e
        THEN /\ \E m \in 1..MaxMinNum : fh' = heap_init(m)
             /\ fout' = out'
        ELSE /\ fh' = r.h
             /\ fout' = [pty |-> r.pty, elt |-> r.elt]

FreshSearch(elt) ==
  /\ fret' = heap_search(fh, elt)
  /\ fout' = CallerInit
  /\ UNCHANGED <<fh, emptied>>

(* the calls counted *)

CountPush ==
  /\ npush < MaxOps
  /\ npush' = npush + 1
  /\ UNCHANGED npop

CountPop ==
  /\ npop' = IF h.num_elts > 0 THEN npop + 1 ELSE npop
  /\ UNCHANGED npush

(* Spec: the calls of a caller that keeps the preconditions of heap_push  *)
(* and heap_update, with the reference queue                              *)

Next ==
  \/ \E p \in Ptys, e \in Elts :
        Push(p, e) /\ RefPush(p, e) /\ UNCHANGED <<freshvars, countvars, restvars>>
  \/ \E p \in Ptys, e \in Elts :
        Update(p, e) /\ RefUpdate(p, e) /\ UNCHANGED <<freshvars, countvars, restvars>>
  \/ Pop /\ RefPop /\ UNCHANGED <<freshvars, countvars, restvars>>
  \/ \E e \in Elts :
        Search(e) /\ RefSearch /\ UNCHANGED <<freshvars, countvars, restvars>>

Spec == Init /\ [][Next]_vars

(* SpecCount: the same calls, counted, with at most MaxOps pushes *)

NextCount ==
  \/ \E p \in Ptys, e \in Elts :
        Push(p, e) /\ CountPush /\ UNCHANGED <<refvars, freshvars, restvars>>
  \/ \E p \in Ptys, e \in Elts :
        Update(p, e) /\ UNCHANGED <<refvars, freshvars, countvars, restvars>>
  \/ Pop /\ CountPop /\ UNCHANGED <<refvars, freshvars, restvars>>
  \/ \E e \in Elts :
        Search(e) /\ UNCHANGED <<refvars, freshvars, countvars, restvars>>

SpecCount == Init /\ [][NextCount]_vars

(* SpecFresh: the same calls, also made on a heap that is initialized, *)
(* with any capacity, whenever a pop has emptied h                     *)

InitFresh ==
  /\ \E m \in 1..MaxMinNum : h = heap_init(m)
  /\ out = CallerInit
  /\ ret = NULL
  /\ last = [op |-> "init", pty |-> 0, elt |-> 0, n |-> 0]
  /\ proc = "running"
  /\ given = [e \in Elts |-> NULL]
  /\ oracle = <<>>
  /\ oout = RefInit
  /\ \E m \in 1..MaxMinNum : fh = heap_init(m)
  /\ fout = CallerInit
  /\ fret = NULL
  /\ emptied = FALSE
  /\ npush = 0
  /\ npop = 0
  /\ rel = RelInit(FALSE)
  /\ lay = LayInit(1, 1)
  /\ dj = DjIdle
  /\ djcalls = DjCallsInit
  /\ cmpcall = CmpIdle

NextFresh ==
  \/ \E p \in Ptys, e \in Elts :
        Push(p, e) /\ FreshPush(p, e) /\ UNCHANGED <<refvars, countvars, restvars>>
  \/ \E p \in Ptys, e \in Elts :
        Update(p, e) /\ FreshUpdate(p, e) /\ UNCHANGED <<refvars, countvars, restvars>>
  \/ Pop /\ FreshPop /\ UNCHANGED <<refvars, countvars, restvars>>
  \/ \E e \in Elts :
        Search(e) /\ FreshSearch(e) /\ UNCHANGED <<refvars, countvars, restvars>>

SpecFresh == InitFresh /\ [][NextFresh]_vars

(* SpecMisuse: a caller that also calls heap_update with elements that are *)
(* not in the heap                                                         *)

\* heap_update of an element that is not in the heap: the hash table search
\* returns NULL and heap_update reads a size_t through it.  Either the read
\* traps and the process ends, or it yields some value; of the values, the
\* numbers of the slots in use are modelled
UpdateAbsent(pty, elt) ==
  /\ proc = "running"
  /\ heap_search(h, elt) = NULL
  /\ \/ /\ proc' = "trapped"
        /\ h' = h
     \/ /\ \E ix \in 0..(h.num_elts - 1) : h' = heap_update_at(h, pty, ix)
        /\ proc' = "running"
  /\ out' = CallerInit
  /\ ret' = NULL
  /\ last' = Call("update_absent", pty, elt)

NextMisuse ==
  \/ \E p \in Ptys, e \in Elts :
        Push(p, e) /\ UNCHANGED <<refvars, freshvars, countvars, restvars>>
  \/ \E p \in Ptys, e \in Elts :
        Update(p, e) /\ UNCHANGED <<refvars, freshvars, countvars, restvars>>
  \/ Pop /\ UNCHANGED <<refvars, freshvars, countvars, restvars>>
  \/ \E e \in Elts :
        Search(e) /\ UNCHANGED <<refvars, freshvars, countvars, restvars>>
  \/ \E p \in Ptys, e \in Elts :
        UpdateAbsent(p, e) /\ UNCHANGED <<refvars, freshvars, countvars, restvars>>

SpecMisuse == Init /\ [][NextMisuse]_vars

(* SpecHeapFree: a caller that ends with heap_free, on a heap initialized  *)
(* with or without a free_elt hook                                         *)

InitFree ==
  /\ \E m \in 1..MaxMinNum : h = heap_init(m)
  /\ out = CallerInit
  /\ ret = NULL
  /\ last = [op |-> "init", pty |-> 0, elt |-> 0, n |-> 0]
  /\ proc = "running"
  /\ given = [e \in Elts |-> NULL]
  /\ oracle = <<>>
  /\ oout = RefInit
  /\ fh = heap_init(1)
  /\ fout = CallerInit
  /\ fret = NULL
  /\ emptied = FALSE
  /\ npush = 0
  /\ npop = 0
  /\ \E f \in BOOLEAN : rel = RelInit(f)
  /\ lay = LayInit(1, 1)
  /\ dj = DjIdle
  /\ djcalls = DjCallsInit
  /\ cmpcall = CmpIdle

\* heap_free; no call on the heap follows it
Free ==
  /\ proc = "running"
  /\ LET r == heap_free(h, rel)
     IN /\ h' = r.h
        /\ rel' = r.rel
  /\ proc' = "freed"
  /\ out' = CallerInit
  /\ ret' = NULL
  /\ last' = Call("free", 0, 0)

NextFree ==
  \/ \E p \in Ptys, e \in Elts :
        Push(p, e) /\ UNCHANGED <<refvars, freshvars, countvars, restvars>>
  \/ \E p \in Ptys, e \in Elts :
        Update(p, e) /\ UNCHANGED <<refvars, freshvars, countvars, restvars>>
  \/ Pop /\ UNCHANGED <<refvars, freshvars, countvars, restvars>>
  \/ \E e \in Elts :
        Search(e) /\ UNCHANGED <<refvars, freshvars, countvars, restvars>>
  \/ Free
        /\ UNCHANGED <<refvars, freshvars, countvars, layoutvars,
                       dijkstravars, comparevars>>

SpecHeapFree == InitFree /\ [][NextFree]_vars

(* SpecLayout: heap_init with any sizes, and heap_align calls with any      *)
(* alignments on the empty heap                                            *)

InitLayout ==
  /\ \E m \in 1..MaxMinNum : h = heap_init(m)
  /\ out = CallerInit
  /\ ret = NULL
  /\ last = [op |-> "init", pty |-> 0, elt |-> 0, n |-> 0]
  /\ proc = "running"
  /\ given = [e \in Elts |-> NULL]
  /\ oracle = <<>>
  /\ oout = RefInit
  /\ fh = heap_init(1)
  /\ fout = CallerInit
  /\ fret = NULL
  /\ emptied = FALSE
  /\ npush = 0
  /\ npop = 0
  /\ rel = RelInit(FALSE)
  /\ \E ps \in 1..MaxSize, es \in 1..MaxSize : lay = LayInit(ps, es)
  /\ dj = DjIdle
  /\ djcalls = DjCallsInit
  /\ cmpcall = CmpIdle

\* heap_align on the empty heap: the layout is computed again, and buf and
\* the store, which holds no pair, are reallocated with the new pair_size
Align(pty_alignment, elt_alignment) ==
  /\ proc = "running"
  /\ h.num_elts = 0
  /\ lay' = [size |-> heap_align_layout(lay.size, pty_alignment,
                                        elt_alignment),
             pty_alignment |-> pty_alignment,
             elt_alignment |-> elt_alignment]
  /\ out' = CallerInit
  /\ ret' = NULL
  /\ last' = Call("align", 0, 0)
  /\ UNCHANGED <<h, proc>>

NextLayout ==
  \E pa \in 1..MaxSize, ea \in 1..MaxSize :
     /\ Align(pa, ea)
     /\ UNCHANGED <<refvars, freshvars, countvars, freevars, dijkstravars,
                    comparevars>>

SpecLayout == InitLayout /\ [][NextLayout]_vars

(* SpecDijkstra: dijkstra_uint64 on any directed graph of NumVts vertices   *)
(* without loops and parallel edges, with uint64_t weights in 0..MaxWt, any *)
(* order of the edges in the adjacency lists, and any start vertex          *)

\* the adjacency lists that a vertex u can have
AdjLists(u) ==
  LET Edges == [v : Vts \ {u}, wt : 0..MaxWt]
      Lists == UNION {[1..k -> Edges] : k \in 0..(NumVts - 1)}
  IN {l \in Lists : \A i, j \in 1..Len(l) : l[i].v = l[j].v => i = j}

InitDijkstra ==
  /\ h = heap_init(1)
  /\ out = CallerInit
  /\ ret = NULL
  /\ last = [op |-> "init", pty |-> 0, elt |-> 0, n |-> 0]
  /\ proc = "running"
  /\ given = [e \in Elts |-> NULL]
  /\ oracle = <<>>
  /\ oout = RefInit
  /\ fh = heap_init(1)
  /\ fout = CallerInit
  /\ fret = NULL
  /\ emptied = FALSE
  /\ npush = 0
  /\ npop = 0
  /\ rel = RelInit(FALSE)
  /\ lay = LayInit(1, 1)
  /\ dj = DjIdle
  /\ djcalls = DjCallsInit
  /\ cmpcall = CmpIdle

\* the call of dijkstra_uint64, up to the first test of the while loop
DijkstraCall ==
  /\ dj.pc = "idle"
  /\ \E start \in Vts :
        \E adj \in [Vts -> UNION {AdjLists(u) : u \in Vts}] :
           /\ \A u \in Vts : adj[u] \in AdjLists(u)
           /\ dj' = dijkstra_init(adj, start)

\* the start of an iteration of the while loop: the heap is not empty
DijkstraPop ==
  /\ dj.pc = "loop"
  /\ dj.h.num_elts > 0
  /\ dj' = dijkstra_pop(dj)

\* an iteration of the for loop
DijkstraEdge ==
  /\ dj.pc = "for"
  /\ dj' = dijkstra_edge(dj)

\* the end of the while loop: the heap is empty
DijkstraReturn ==
  /\ dj.pc = "loop"
  /\ dj.h.num_elts = 0
  /\ dj' = dijkstra_return(dj)

\* a count that stops at NumVts, which no count of a run reaches
CountUp(n) == IF n < NumVts THEN n + 1 ELSE n

\* the counts c after a step of the run from d to d2: the push of start
\* before the while loop, the pop of an iteration, or the push of v in an
\* iteration of the for loop, where num_elts grows
dijkstra_calls(c, d, d2) ==
  IF d.pc = "idle"
  THEN [c EXCEPT !.pushes[d2.start] = CountUp(c.pushes[d2.start])]
  ELSE IF d.pc = "loop" /\ d2.pc # "done"
  THEN [c EXCEPT !.pops[d2.u] = CountUp(c.pops[d2.u])]
  ELSE IF d.pc = "for" /\ d2.h.num_elts > d.h.num_elts
  THEN LET v == d.adj[d.u][d.i].v
       IN [c EXCEPT !.pushes[v] = CountUp(c.pushes[v])]
  ELSE c

\* every step of the run is counted
DijkstraCounted == djcalls' = dijkstra_calls(djcalls, dj, dj')

\* the steps of the run, once called
DijkstraRun ==
  /\ DijkstraPop \/ DijkstraEdge \/ DijkstraReturn
  /\ DijkstraCounted
  /\ UNCHANGED <<heapvars, refvars, freshvars, countvars, freevars,
                 layoutvars, comparevars>>

NextDijkstra ==
  \/ DijkstraCall
        /\ DijkstraCounted
        /\ UNCHANGED <<heapvars, refvars, freshvars, countvars, freevars,
                       layoutvars, comparevars>>
  \/ DijkstraRun

\* a run that was called goes on while a step is possible
SpecDijkstra ==
  InitDijkstra /\ [][NextDijkstra]_vars /\ WF_vars(DijkstraRun)

(* SpecDup: a caller that also pushes elements that are in the heap, while *)
(* the heap holds at most NumElts pairs                                    *)

\* the hash table maps exactly the elements in the slots [0, num_elts), each
\* to its slot
Consistent(hp) ==
  /\ DOMAIN hp.ht = {hp.pty_elts[i].elt : i \in 0..(hp.num_elts - 1)}
  /\ \A i \in 0..(hp.num_elts - 1) : ht_search(hp.ht, hp.pty_elts[i].elt) = i

\* heap_push of an element that is in the heap, on a heap without duplicates
PushDup(pty, elt) ==
  /\ proc = "running"
  /\ heap_search(h, elt) # NULL
  /\ Consistent(h)
  /\ LET r == heap_push_call(h, pty, elt)
     IN /\ h' = r.h
        /\ proc' = IF r.exited THEN "exited" ELSE proc
  /\ ret' = NULL
  /\ last' = Call("push_dup", pty, elt)
  /\ out' = CallerInit

NextDup ==
  \/ \E p \in Ptys, e \in Elts :
        /\ h.num_elts <= NumElts
        /\ Push(p, e)
        /\ UNCHANGED <<refvars, freshvars, countvars, restvars>>
  \/ \E p \in Ptys, e \in Elts :
        Update(p, e) /\ UNCHANGED <<refvars, freshvars, countvars, restvars>>
  \/ Pop /\ UNCHANGED <<refvars, freshvars, countvars, restvars>>
  \/ \E e \in Elts :
        Search(e) /\ UNCHANGED <<refvars, freshvars, countvars, restvars>>
  \/ \E p \in Ptys, e \in Elts :
        PushDup(p, e) /\ UNCHANGED <<refvars, freshvars, countvars, restvars>>

SpecDup == Init /\ [][NextDup]_vars

(* ------------------------------ claims --------------------------------- *)

\* the pairs in the slots [0, num_elts) of a heap
Pairs(hp) == {hp.pty_elts[i] : i \in 0..(hp.num_elts - 1)}

\* the elements in the slots [0, num_elts) of a heap
EltsIn(hp) == {hp.pty_elts[i].elt : i \in 0..(hp.num_elts - 1)}

\* C1: heap-order invariant: after heap_init and after every push of an
\* element not present, update of an element present and pop, the priority
\* at the parent slot (i-1)/2 of every slot 0 < i < num_elts compares <= 0
\* with the priority at slot i
HeapOrder ==
  \A i \in 1..(h.num_elts - 1) :
     cmp_pty(h.pty_elts[(i - 1) \div 2].pty, h.pty_elts[i].pty) <= 0

\* an update or a pop has left at least three pairs in heap order, the root
\* strictly below both of its children
HeapOrderWitness ==
  /\ HeapOrder
  /\ h.num_elts >= 3
  /\ last.op \in {"update", "pop"}
  /\ h.pty_elts[0].pty < h.pty_elts[1].pty
  /\ h.pty_elts[0].pty < h.pty_elts[2].pty

\* C2: index bijection invariant: after heap_init and every push, update,
\* pop and search the keys of the hash table are exactly the elements in the
\* slots [0, num_elts), the table maps the element at slot i to i, and the
\* table has num_elts keys
IndexBijection ==
  /\ DOMAIN h.ht = EltsIn(h)
  /\ \A i \in 0..(h.num_elts - 1) : ht_search(h.ht, h.pty_elts[i].elt) = i
  /\ Cardinality(DOMAIN h.ht) = h.num_elts

\* a pop of a heap of three pairs has moved the last pair to the root and
\* sifted it down below the other pair, and the index is a bijection
IndexBijectionWitness ==
  /\ IndexBijection
  /\ last.op = "pop"
  /\ last.n = 3
  /\ h.num_elts = 2
  /\ h.pty_elts[0].pty = 0
  /\ h.pty_elts[1].pty = 1
  /\ h.pty_elts[2].pty = 0

\* the pushes (5,A), (3,B), (8,C), (1,D) on a heap of initial capacity m,
\* with A, B, C, D the elements 1, 2, 3, 4
ScenarioHeap(m) ==
  heap_push(heap_push(heap_push(heap_push(heap_init(m), 5, 1), 3, 2), 8, 3),
            1, 4)

\* the pairs that repeated pops write out until the heap is empty
RECURSIVE PopAll(_)
PopAll(hp) ==
  IF hp.num_elts = 0 THEN <<>>
  ELSE LET r == heap_pop(hp, CallerInit.pty, CallerInit.elt)
       IN <<[pty |-> r.pty, elt |-> r.elt]>> \o PopAll(r.h)

ScenarioPops ==
  \A m \in 1..MaxMinNum :
     PopAll(ScenarioHeap(m)) =
        <<[pty |-> 1, elt |-> 4], [pty |-> 3, elt |-> 2],
          [pty |-> 5, elt |-> 1], [pty |-> 8, elt |-> 3]>>

\* C3: pop-min correctness: every heap_pop on a non-empty heap writes out a
\* pair that was in the heap before the call and whose priority is <= the
\* priority of every pair then in the heap; a pop that follows a pop writes
\* out a priority that is not less than the preceding one, and the pushes
\* (5,A), (3,B), (8,C), (1,D) pop as D, B, A, C
PopMinStep ==
  (last'.op = "pop" /\ h.num_elts > 0) =>
     /\ out' \in Pairs(h)
     /\ \A q \in Pairs(h) : cmp_pty(out'.pty, q.pty) <= 0
     /\ (last.op = "pop" /\ last.n > 0) => cmp_pty(out.pty, out'.pty) <= 0
     /\ ScenarioPops

PopMin == [][PopMinStep]_vars

\* a pop of a heap of two pairs has written out priority 1, after a pair of
\* priority 0 was popped from the heap of three pairs
PopMinWitness ==
  /\ last.op = "pop"
  /\ last.n = 2
  /\ h.count >= 3
  /\ out.pty = 1
  /\ h.pty_elts[1] = out
  /\ h.pty_elts[2].pty = 0
  /\ h.pty_elts[2].elt \in Elts

\* C5: update correctness: after heap_update(p', e) of an element e in the
\* heap, heap_search(e) points to p', num_elts and the set of elements in the
\* heap are unchanged, and every other element keeps its priority
UpdateStep ==
  last'.op = "update" =>
     LET e == last'.elt
         r == heap_search(h', e)
     IN /\ r # NULL
        /\ h'.pty_elts[r].pty = last'.pty
        /\ h'.num_elts = h.num_elts
        /\ EltsIn(h') = EltsIn(h)
        /\ \A q \in Pairs(h) : q.elt # e => q \in Pairs(h')

UpdateCorrect == [][UpdateStep]_vars

\* an update has made one of three elements the only one of priority 0
UpdateCorrectWitness ==
  /\ last.op = "update"
  /\ last.pty = 0
  /\ h.num_elts = 3
  /\ h.pty_elts[0].elt = last.elt
  /\ h.pty_elts[1].pty = 1
  /\ h.pty_elts[2].pty = 1

\* C7: heap_pop on an empty heap is a no-op: the caller's pty and elt blocks
\* are not written, and num_elts (which stays 0), count, the store and the
\* index are unchanged
PopEmptyStep ==
  (last'.op = "pop" /\ h.num_elts = 0) =>
     /\ out' = out
     /\ h' = h
     /\ h'.num_elts = 0

PopEmptyNoOp == [][PopEmptyStep]_vars

\* a pop on the empty heap has left the pair of the preceding pop in the
\* caller's blocks
PopEmptyNoOpWitness ==
  /\ last.op = "pop"
  /\ last.n = 0
  /\ h.num_elts = 0
  /\ out.elt \in Elts
  /\ out.pty = 1

\* C8: heap_search(e) returns a pointer to the priority last given to e by
\* push or update if e is in the heap, and NULL if e was never pushed or was
\* popped since its last push; it changes nothing in the heap
SearchStep ==
  last'.op = "search" =>
     LET e == last'.elt
     IN /\ h' = h
        /\ given[e] = NULL => ret' = NULL
        /\ given[e] # NULL => /\ ret' # NULL
                              /\ h.pty_elts[ret'].pty = given[e]

SearchCorrect == [][SearchStep]_vars

\* a search has found an element below the root, with priority 1
SearchCorrectWitness ==
  /\ last.op = "search"
  /\ ret > 0
  /\ h.pty_elts[ret].elt = last.elt
  /\ h.pty_elts[ret].pty = 1

\* C4: oracle equivalence: for every initial capacity and every interleaving
\* of push (fresh element), update (present element) and pop, the heap holds
\* the pairs of the reference sorted list, each pop writes out the priority
\* that the reference list pops, and the same element when the minimal
\* priority is unique; a doubling of the capacity keeps num_elts, the index
\* and the content of every slot
OracleEquiv ==
  /\ Pairs(h) = {oracle[i] : i \in 1..Len(oracle)}
  /\ Len(oracle) = h.num_elts
  /\ (last.op = "pop" /\ last.n > 0) =>
        /\ out.pty = oout.pty
        /\ oout.uniq => out.elt = oout.elt
  /\ h.count = h.num_elts =>
        LET g == heap_grow(h)
        IN /\ g.count = 2 * h.count
           /\ g.num_elts = h.num_elts
           /\ g.ht = h.ht
           /\ \A i \in 0..(h.count - 1) : g.pty_elts[i] = h.pty_elts[i]

\* a pop of a heap of three pairs, in a store that has grown to four slots,
\* has written out the pair that the reference list popped, of a priority
\* that no other pair had
OracleEquivWitness ==
  /\ last.op = "pop"
  /\ last.n = 3
  /\ h.count = 4
  /\ oout.uniq
  /\ out.elt = oout.elt
  /\ out.pty = oout.pty
  /\ h.pty_elts[0].pty = 1

\* C6: heap_update of an element that is not in the heap is rejected: the
\* caller goes on, and the store, num_elts, count and the index are unchanged
UpdateAbsentStep ==
  last'.op = "update_absent" =>
     /\ proc' = "running"
     /\ h'.pty_elts = h.pty_elts
     /\ h'.num_elts = h.num_elts
     /\ h'.count = h.count
     /\ h'.ht = h.ht

UpdateAbsentRejected == [][UpdateAbsentStep]_vars

\* C9: round-trip size: after n pushes and k pops on a non-empty heap
\* num_elts is n - k, and updates and searches do not change num_elts
SizeStep ==
  last'.op \in {"update", "search"} => h'.num_elts = h.num_elts

RoundTripSize == [](h.num_elts = npush - npop) /\ [][SizeStep]_vars

\* four pushes and three pops on a non-empty heap have left one element
RoundTripSizeWitness ==
  /\ npush = 4
  /\ npop = 3
  /\ h.num_elts = 1
  /\ last.op = "pop"

\* the priority that the result of heap_search points to
Deref(hp, r) == IF r = NULL THEN NULL ELSE hp.pty_elts[r].pty

\* C10: reset equivalence: when all elements have been popped num_elts is 0
\* and the index holds no key, and the searches and pops that follow give the
\* results that the same calls give on a newly initialized heap
ResetEquiv ==
  /\ h.num_elts = 0 => DOMAIN h.ht = {}
  /\ emptied =>
        /\ fh.num_elts = h.num_elts
        /\ last.op = "pop" => out = fout
        /\ last.op = "search" =>
              /\ (ret = NULL) = (fret = NULL)
              /\ Deref(h, ret) = Deref(fh, fret)

\* after a heap that had grown to four slots was emptied, two elements were
\* pushed again, and a pop has written out the same pair, of priority 1, as
\* the pop on the new heap of two slots
ResetEquivWitness ==
  /\ emptied
  /\ last.op = "pop"
  /\ last.n = 2
  /\ out.elt \in Elts
  /\ out.pty = 1
  /\ out = fout
  /\ h.count = 4
  /\ fh.count = 2

\* the part of C11 on elements in the heap: after heap_update(p', e) of an
\* element in the heap with p' strictly below every other priority, e is at
\* slot 0 and a heap_pop then writes out (p', e)
DecreaseKeyPresentStep ==
  (/\ last'.op = "update"
   /\ \A q \in Pairs(h) : q.elt # last'.elt => cmp_pty(last'.pty, q.pty) < 0)
  => LET r == heap_pop(h', CallerInit.pty, CallerInit.elt)
     IN /\ h'.pty_elts[0] = [pty |-> last'.pty, elt |-> last'.elt]
        /\ r.pty = last'.pty
        /\ r.elt = last'.elt

DecreaseKeyPresent == [][DecreaseKeyPresentStep]_vars

\* the part of C11 on popped elements: a heap_update that names the element
\* that the preceding heap_pop wrote out is rejected: the caller goes on and
\* the heap is as before
DecreaseKeyPoppedStep ==
  (/\ last.op = "pop"
   /\ last.n > 0
   /\ last'.op = "update_absent"
   /\ last'.elt = out.elt)
  => /\ proc' = "running"
     /\ h' = h

\* C11: decrease-key to the minimum: after heap_update(p', e) of an element
\* in the heap with p' strictly below every other priority in the heap, e is
\* at slot 0 and the next heap_pop writes out (p', e); a heap_update that
\* names an element that was already popped is rejected
DecreaseKeyMin ==
  [][DecreaseKeyPresentStep /\ DecreaseKeyPoppedStep]_vars

\* C12: capacity invariant: count >= num_elts always; count changes only in
\* a heap_push that finds count = num_elts on entry, and it then becomes
\* exactly twice its old value, so that count is the initial capacity times a
\* power of two and never decreases; heap_pop, heap_update and heap_search
\* never change count
CapacityStep ==
  /\ h'.count >= h.count
  /\ h'.count # h.count =>
        /\ last'.op = "push"
        /\ h.count = h.num_elts
        /\ h'.count = 2 * h.count
  /\ (last'.op = "push" /\ h.count = h.num_elts) => h'.count = 2 * h.count
  /\ last'.op \in {"pop", "update", "search"} => h'.count = h.count

Capacity == [](h.count >= h.num_elts) /\ [][CapacityStep]_vars

\* the push of a third element has found the two slots full and doubled the
\* capacity to four
CapacityWitness ==
  /\ last.op = "push"
  /\ last.n = 2
  /\ h.num_elts = 3
  /\ h.count = 4

\* the heap after heap_update has copied the new priority into slot ix and
\* before it sifts
update_written(hp, pty, ix) == [hp EXCEPT !.pty_elts[ix].pty = pty]

\* the heaps that the two sifts of heap_update(pty, elt) on hp start from
\* and end in: w as written, u after heapify_up, d after heapify_down
UpdateSifts(hp, pty, elt) ==
  LET ix == ht_search(hp.ht, elt)
      w  == update_written(hp, pty, ix)
      u  == heapify_up(w, ix)
  IN [ix |-> ix, w |-> w, u |-> u, d |-> heapify_down(u, ix)]

\* C16 as stated: in every heap_update of an element in the heap exactly one
\* of the two sift directions moves the updated entry to a different slot,
\* and the other is a no-op
OneSiftMovesStep ==
  last'.op = "update" =>
     LET s       == UpdateSifts(h, last'.pty, last'.elt)
         upMoves == ht_search(s.u.ht, last'.elt) # s.ix
         dnMoves == ht_search(s.d.ht, last'.elt) # ht_search(s.u.ht, last'.elt)
     IN \/ upMoves /\ s.d = s.u
        \/ dnMoves /\ s.u = s.w

OneSiftMoves == [][OneSiftMovesStep]_vars

\* C16 amended: in every heap_update of an element in the heap at most one
\* of the two sift directions moves the updated entry to a different slot; a
\* direction that does not move it is a no-op, and both are no-ops when the
\* new priority leaves the entry in order with its parent and its children
AtMostOneSiftMovesStep ==
  last'.op = "update" =>
     LET s       == UpdateSifts(h, last'.pty, last'.elt)
         upMoves == ht_search(s.u.ht, last'.elt) # s.ix
         dnMoves == ht_search(s.d.ht, last'.elt) # ht_search(s.u.ht, last'.elt)
     IN /\ s.d = h'
        /\ ~(upMoves /\ dnMoves)
        /\ ~upMoves => s.u = s.w
        /\ ~dnMoves => s.d = s.u
        /\ s.u = s.w \/ s.d = s.u

AtMostOneSiftMoves == [][AtMostOneSiftMovesStep]_vars

\* an update has raised to 1 the priority of one of three elements, and the
\* element is at slot 2 below a root of priority 0
AtMostOneSiftMovesWitness ==
  /\ last.op = "update"
  /\ last.pty = 1
  /\ h.num_elts = 3
  /\ h.pty_elts[2] = [pty |-> 1, elt |-> last.elt]
  /\ h.pty_elts[0].pty = 0
  /\ h.pty_elts[1].pty = 0

\* the multiset of the pairs in the slots [0, num_elts) of a heap: a function
\* from each pair to the number of slots that hold it
PairBag(hp) ==
  [q \in Pairs(hp) |->
     Cardinality({i \in 0..(hp.num_elts - 1) : hp.pty_elts[i] = q})]

\* a multiset with one more copy of q
BagPlus(b, q) ==
  [x \in (DOMAIN b) \cup {q} |->
     (IF x \in DOMAIN b THEN b[x] ELSE 0) + (IF x = q THEN 1 ELSE 0)]

\* a multiset with one copy of q less
BagMinus(b, q) ==
  [x \in {y \in DOMAIN b : y # q \/ b[y] > 1} |->
     IF x = q THEN b[x] - 1 ELSE b[x]]

\* C17: pair preservation: the multiset of (priority, element) pairs in the
\* heap after a heap_push is the multiset before plus the pushed pair, after
\* a heap_pop on a non-empty heap it is the multiset before minus the pair
\* written out, and after heap_update(p', e) it is the multiset before with
\* the pair of e replaced by (p', e)
PairStep ==
  /\ last'.op = "push" =>
        PairBag(h') =
           BagPlus(PairBag(h), [pty |-> last'.pty, elt |-> last'.elt])
  /\ (last'.op = "pop" /\ h.num_elts > 0) =>
        /\ out' \in Pairs(h)
        /\ PairBag(h') = BagMinus(PairBag(h), out')
  /\ last'.op = "update" =>
        \E q \in Pairs(h) :
           /\ q.elt = last'.elt
           /\ PairBag(h') =
                 BagPlus(BagMinus(PairBag(h), q),
                         [pty |-> last'.pty, elt |-> last'.elt])

PairPreservation == [][PairStep]_vars

\* an update has lowered the priority of one of three elements to 0 and the
\* element is at the root above the two other pairs, of priority 1
PairPreservationWitness ==
  /\ last.op = "update"
  /\ last.n = 3
  /\ Cardinality(Pairs(h)) = 3
  /\ h.pty_elts[0] = [pty |-> 0, elt |-> last.elt]
  /\ \A q \in Pairs(h) : q.elt # last.elt => q.pty = 1

\* the heap after heap_push has grown the store if full, copied the pair
\* into slot num_elts, registered it and incremented num_elts, before it
\* sifts
push_appended(hp, pty, elt) ==
  LET h1 == heap_grow(hp)
  IN [h1 EXCEPT !.pty_elts[hp.num_elts] = [pty |-> pty, elt |-> elt],
                !.ht = ht_insert(h1.ht, elt, hp.num_elts),
                !.num_elts = h1.num_elts + 1]

\* the heap after heap_pop on a non-empty heap has swapped the root with the
\* last pair, removed the popped element from the hash table and decremented
\* num_elts, before it sifts
pop_removed(hp) ==
  LET h1 == swap(hp, 0, hp.num_elts - 1)
  IN [h1 EXCEPT !.ht = ht_remove(h1.ht, hp.pty_elts[0].elt),
                !.num_elts = h1.num_elts - 1]

\* the slots that the while loop of heapify_up reads, compares or writes:
\* the parent slot ju at every test, and ix when half_swap writes it
RECURSIVE heapify_up_slots(_, _, _)
heapify_up_slots(hp, ix, buf) ==
  IF ix > 0
  THEN LET ju == (ix - 1) \div 2
       IN {ju} \cup
          (IF cmp_pty(hp.pty_elts[ju].pty, buf.pty) > 0
           THEN {ix} \cup heapify_up_slots(half_swap(hp, ix, ju), ju, buf)
           ELSE {})
  ELSE {}

\* the slots that heapify_up(hp, i) touches: i is copied into buf, the loop
\* runs, and buf is written where the loop ends
heapify_up_touched(hp, i) ==
  LET buf == hp.pty_elts[i]
  IN {i} \cup heapify_up_slots(hp, i, buf)
         \cup {heapify_up_loop(hp, i, buf).ix}

\* heapify_down_slots that takes the capacity for the number of pairs
RECURSIVE heapify_down_slots_count(_, _, _)
heapify_down_slots_count(hp, ix, buf) ==
  LET jl == 2 * ix + 1
      jr == 2 * ix + 2
  IN IF jr < hp.count
     THEN {jl, jr} \cup
          (IF /\ cmp_pty(buf.pty, hp.pty_elts[jl].pty) > 0
              /\ cmp_pty(hp.pty_elts[jl].pty, hp.pty_elts[jr].pty) <= 0
           THEN {ix} \cup
                heapify_down_slots_count(half_swap(hp, ix, jl), jl, buf)
           ELSE IF cmp_pty(buf.pty, hp.pty_elts[jr].pty) > 0
                THEN {ix} \cup
                     heapify_down_slots_count(half_swap(hp, ix, jr), jr, buf)
                ELSE {})
     ELSE IF jl < hp.count
          THEN {jl} \cup
               (IF cmp_pty(buf.pty, hp.pty_elts[jl].pty) > 0
                THEN {ix} ELSE {})
          ELSE {}

\* the slots that the while loop of heapify_down and the if statement after
\* it read, compare or write: both child slots at every test of the loop,
\* the left child slot in the if statement, and ix when half_swap writes it;
\* child slots beyond the store are touched and end the walk
RECURSIVE heapify_down_slots(_, _, _)
heapify_down_slots(hp, ix, buf) ==
  LET jl == 2 * ix + 1
      jr == 2 * ix + 2
  IN IF ix + 2 <= sub_sz(sub_sz(hp.num_elts, 1), ix)
     THEN {jl, jr} \cup
          (IF jr >= hp.count THEN {}
           ELSE IF /\ cmp_pty(buf.pty, hp.pty_elts[jl].pty) > 0
                   /\ cmp_pty(hp.pty_elts[jl].pty, hp.pty_elts[jr].pty) <= 0
                THEN {ix} \cup heapify_down_slots(half_swap(hp, ix, jl), jl,
                                                  buf)
                ELSE IF cmp_pty(buf.pty, hp.pty_elts[jr].pty) > 0
                     THEN {ix} \cup
                          heapify_down_slots(half_swap(hp, ix, jr), jr, buf)
                     ELSE {})
     ELSE IF ix + 1 = sub_sz(sub_sz(hp.num_elts, 1), ix)
          THEN {jl} \cup
               (IF jl >= hp.count THEN {}
                ELSE IF cmp_pty(buf.pty, hp.pty_elts[jl].pty) > 0
                     THEN {ix} ELSE {})
          ELSE {}

\* the slots that heapify_down(hp, i) touches, and the final slot ix of the
\* walk, where buf is written
heapify_down_touched(hp, i) ==
  LET buf == hp.pty_elts[i]
      r1  == heapify_down_loop(hp, i, buf)
      r   == heapify_down_last(r1.h, r1.ix, buf)
  IN {i} \cup heapify_down_slots(hp, i, buf) \cup {r.ix}

\* the values of ix at which heapify_down(hp, i) computes num_elts - 1 - ix:
\* the slots of the walk, from i to the slot where buf is written
heapify_down_walk(hp, i) ==
  LET buf == hp.pty_elts[i]
      r1  == heapify_down_loop(hp, i, buf)
      r   == heapify_down_last(r1.h, r1.ix, buf)
  IN {ix \in heapify_down_touched(hp, i) :
        ix = i \/ ix = r.ix \/ hp.pty_elts[ix] # r.h.pty_elts[ix]}

\* the sifts that a call makes on the heap hp: the direction, the heap on
\* entry to the sift and the slot it starts from
SiftCalls(hp, op, pty, elt) ==
  IF op = "push"
  THEN {[dir |-> "up", h |-> push_appended(hp, pty, elt), i |-> hp.num_elts]}
  ELSE IF op = "update"
  THEN LET s == UpdateSifts(hp, pty, elt)
       IN {[dir |-> "up", h |-> s.w, i |-> s.ix],
           [dir |-> "down", h |-> s.u, i |-> s.ix]}
  ELSE IF op = "pop" /\ hp.num_elts > 1
  THEN {[dir |-> "down", h |-> pop_removed(hp), i |-> 0]}
  ELSE {}

\* the slots that a sift touches
SiftTouched(c) ==
  IF c.dir = "up" THEN heapify_up_touched(c.h, c.i)
  ELSE heapify_down_touched(c.h, c.i)

\* C18: bounds safety of sifting: in every heapify_up and heapify_down that
\* heap_push, heap_update and heap_pop run, every slot read, compared or
\* written has an index < num_elts and < count, so a child slot is compared
\* only if it is < num_elts, and the unsigned num_elts - 1 - ix does not
\* underflow
SiftBoundsStep ==
  \A c \in SiftCalls(h, last'.op, last'.pty, last'.elt) :
     /\ \A k \in SiftTouched(c) : 0 <= k /\ k < c.h.num_elts /\ k < c.h.count
     /\ c.dir = "down" =>
           \A ix \in heapify_down_walk(c.h, c.i) :
              /\ c.h.num_elts - 1 - ix >= 0
              /\ sub_sz(sub_sz(c.h.num_elts, 1), ix) = c.h.num_elts - 1 - ix

SiftBounds == [][SiftBoundsStep]_vars

\* a pop of a heap of three pairs in four slots has sifted the last pair
\* down from the root past its only child, next to the slot of the popped
\* pair
SiftBoundsWitness ==
  /\ last.op = "pop"
  /\ last.n = 3
  /\ h.count = 4
  /\ h.num_elts = 2
  /\ h.pty_elts[0].pty = 0
  /\ h.pty_elts[1].pty = 1
  /\ h.pty_elts[2] = out
  /\ h.pty_elts[3] = Uninit

\* the steps of the walk of heapify_down on the heap g from slot ix with the
\* buffered pair buf, read off the result of the walk: the walk stops at ix
\* exactly when buf compares <= 0 with every child of ix in [0, num_elts);
\* otherwise one child has moved into ix, buf compares > 0 with it, it
\* compares <= 0 with its sibling if there is one, it is the left child if
\* the two compare equal, and the same holds of the walk from its slot
RECURSIVE DownChoice(_, _, _)
DownChoice(g, ix, buf) ==
  LET r1   == heapify_down_loop(g, ix, buf)
      r    == heapify_down_last(r1.h, r1.ix, buf)
      kids == {j \in {2 * ix + 1, 2 * ix + 2} : j < g.num_elts}
  IN /\ (r.ix = ix) <=>
           \A j \in kids : cmp_pty(buf.pty, g.pty_elts[j].pty) <= 0
     /\ r.ix # ix =>
           \E j \in kids :
              /\ r.h.pty_elts[ix] = g.pty_elts[j]
              /\ cmp_pty(buf.pty, g.pty_elts[j].pty) > 0
              /\ \A s \in kids :
                    cmp_pty(g.pty_elts[j].pty, g.pty_elts[s].pty) <= 0
              /\ \A s \in kids :
                    cmp_pty(g.pty_elts[j].pty, g.pty_elts[s].pty) = 0 => j <= s
              /\ DownChoice(half_swap(g, ix, j), j, buf)

\* C20: sift-down child choice: at every step of a heapify_down where both
\* children exist a child is moved up only if the buffered priority is
\* strictly greater than that child's priority, the moved child's priority
\* is <= its sibling's, the left child being chosen when the two are equal,
\* and the walk stops exactly when the buffered priority is <= the
\* priorities of all existing children of the current slot
ChildChoiceStep ==
  \A c \in SiftCalls(h, last'.op, last'.pty, last'.elt) :
     c.dir = "down" => DownChoice(c.h, c.i, c.h.pty_elts[c.i])

DuplicatePushStep ==
  last'.op = "push_dup" =>
     LET e   == last'.elt
         new == [pty |-> last'.pty, elt |-> e]
         old == h.pty_elts[ht_search(h.ht, e)]
         a   == push_appended(h, last'.pty, e)
         at  == heapify_up_loop(a, h.num_elts, new).ix
         r   == heap_search(h', e)
     IN /\ h'.num_elts = h.num_elts + 1
        /\ PairBag(h') = BagPlus(PairBag(h), new)
        /\ old \in Pairs(h') /\ new \in Pairs(h')
        /\ DOMAIN h'.ht = DOMAIN h.ht
        /\ Cardinality(DOMAIN h'.ht) < h'.num_elts
        /\ r = at
        /\ h'.pty_elts[r] = new
        /\ \E i \in 0..(h'.num_elts - 1) : i # r /\ h'.pty_elts[i] = old
        /\ \A p \in Ptys :
              LET u == heap_update(h', p, e)
              IN /\ old \in Pairs(u)
                 /\ PairBag(u) =
                       BagPlus(BagMinus(PairBag(h'), new),
                               [pty |-> p, elt |-> e])

DuplicatePush == [][DuplicatePushStep]_vars

\* an element of priority 0 in a heap of two pairs has been pushed again
\* with priority 1: both pairs are in the store and the hash table maps the
\* element to the slot of the pair of priority 1
DuplicatePushWitness ==
  /\ last.op = "push_dup"
  /\ last.pty = 1
  /\ last.n = 2
  /\ h.num_elts = 3
  /\ h.pty_elts[0] = [pty |-> 0, elt |-> last.elt]
  /\ h.pty_elts[2] = [pty |-> 1, elt |-> last.elt]
  /\ h.ht[last.elt] = 2
  /\ Cardinality(DOMAIN h.ht) = 2

\* the positions in a log of calls of the calls of fn
CallsOf(c, fn) == {k \in 1..Len(c) : c[k].fn = fn}

\* C13: heap_free with a free_elt hook calls the hook exactly once on each
\* element in the slots [0, num_elts) and on no other element, in particular
\* on none that was popped, each call before the store and the index are
\* released; without a hook no hook call is made; afterwards buf and
\* pty_elts are NULL
FreeStep ==
  last'.op = "free" =>
     LET c     == rel'.calls
         hooks == CallsOf(c, "free_elt")
     IN /\ rel.calls = <<>>
        /\ rel.free_elt =>
              /\ \A i \in 0..(h.num_elts - 1) :
                    Cardinality({k \in hooks : c[k].arg = h.pty_elts[i].elt})
                       = 1
              /\ \A k \in hooks : c[k].arg \in EltsIn(h)
              /\ Cardinality(hooks) = h.num_elts
        /\ ~rel.free_elt => hooks = {}
        /\ \A k \in hooks :
              \A j \in CallsOf(c, "free_buf") \cup CallsOf(c, "free_pty_elts")
                          \cup CallsOf(c, "ht_free") : k < j
        /\ Cardinality(CallsOf(c, "free_buf")) = 1
        /\ Cardinality(CallsOf(c, "free_pty_elts")) = 1
        /\ Cardinality(CallsOf(c, "ht_free")) = 1
        /\ \A j \in CallsOf(c, "free_buf") \cup CallsOf(c, "free_pty_elts") :
              c[j].arg = Alloc
        /\ rel'.buf = NULL
        /\ rel'.pty_elts = NULL

FreeHooks == [][FreeStep]_vars

\* heap_free with a hook on a heap of two elements in four slots: the hook
\* was called on two distinct elements and then the blocks were released
FreeHooksWitness ==
  /\ last.op = "free"
  /\ last.n = 2
  /\ proc = "freed"
  /\ h.count = 4
  /\ rel.free_elt
  /\ Len(rel.calls) = 5
  /\ rel.calls[1].fn = "free_elt"
  /\ rel.calls[2].fn = "free_elt"
  /\ rel.calls[1].arg # rel.calls[2].arg
  /\ rel.calls[3].fn = "free_buf"
  /\ rel.buf = NULL
  /\ rel.pty_elts = NULL

\* x is the smallest multiple of a that is >= lo
SmallestMultiple(x, a, lo) ==
  /\ x % a = 0
  /\ x >= lo
  /\ \A y \in 0..(x - 1) : ~(y % a = 0 /\ y >= lo)

Far == NumVts * MaxWt + 1

\* the edges of a graph as records of source u, target v and weight wt
EdgesOf(adj) ==
  UNION {{[u |-> u, v |-> adj[u][i].v, wt |-> adj[u][i].wt] :
             i \in 1..Len(adj[u])} : u \in Vts}

\* the least weights of the paths from start of at most k edges, Far where
\* there is no such path; with unit = TRUE every edge counts 1
RECURSIVE PathWeights(_, _, _, _)
PathWeights(adj, start, unit, k) ==
  IF k = 0 THEN [v \in Vts |-> IF v = start THEN 0 ELSE Far]
  ELSE LET d == PathWeights(adj, start, unit, k - 1)
       IN [v \in Vts |->
             LET c == {d[v]} \cup
                      {d[e.u] + (IF unit THEN 1 ELSE e.wt) :
                          e \in {x \in EdgesOf(adj) :
                                    x.v = v /\ d[x.u] < Far}}
             IN CHOOSE m \in c : \A x \in c : m <= x]

\* following prev from v leads to start in at most k steps
RECURSIVE PrevLeadsToStart(_, _, _)
PrevLeadsToStart(d, v, k) ==
  \/ v = d.start
  \/ /\ k > 0
     /\ d.prev[v] \in Vts
     /\ PrevLeadsToStart(d, d.prev[v], k - 1)

\* the result of a run that has returned
DijkstraResult ==
  dj.pc = "done" =>
     LET mw   == PathWeights(dj.adj, dj.start, FALSE, NumVts - 1)
         hops == PathWeights(dj.adj, dj.start, TRUE, NumVts - 1)
         es   == EdgesOf(dj.adj)
     IN \A v \in Vts :
           /\ mw[v] < Far =>
                 /\ dj.dist[v] = mw[v]
                 /\ v = dj.start => dj.prev[v] = v
                 /\ v # dj.start =>
                       \E e \in es : /\ e.v = v
                                     /\ e.u = dj.prev[v]
                                     /\ mw[e.u] < Far
                                     /\ mw[e.u] + e.wt = mw[v]
                 /\ PrevLeadsToStart(dj, v, NumVts - 1)
                 /\ \A w \in 1..MaxWt :
                       (\A e \in es : e.wt = w) =>
                          /\ dj.dist[v] \div w = hops[v]
                          /\ dj.dist[v] = w * hops[v]
           /\ mw[v] = Far =>
                 /\ dj.prev[v] = nr
                 /\ dj.dist[v] = init_uint64_fn

\* C15: dijkstra_uint64 on a graph with non-negative edge weights returns,
\* and then for every vertex v reachable from start dist[v] is the least
\* total weight of a path from start to v and prev[v] is the predecessor of
\* v on such a path, with prev[start] = start; for every unreachable v
\* prev[v] is nr and dist[v] has its init value; when all edges have the same
\* weight w, dist[v] / w is the breadth-first hop distance from start
DijkstraCorrect ==
  (dj.pc \in {"loop", "for"} ~> dj.pc = "done") /\ []DijkstraResult

\* a run from vertex 0 has returned; the edge from 0 to 1 of weight 1 was
\* relaxed first and the weight of 1 was then lowered to 0 through vertex 2
DijkstraCorrectWitness ==
  /\ dj.pc = "done"
  /\ dj.start = 0
  /\ dj.adj[0] = <<[v |-> 1, wt |-> 1], [v |-> 2, wt |-> 0]>>
  /\ dj.adj[2] = <<[v |-> 1, wt |-> 0]>>
  /\ dj.dist[1] = 0
  /\ dj.prev[1] = 2
  /\ dj.prev[2] = 0

\* the slots on the path from slot i to the root: i and its ancestors
RECURSIVE PathToRoot(_)
PathToRoot(i) == IF i = 0 THEN {0} ELSE {i} \cup PathToRoot((i - 1) \div 2)

\* C21: frame of heap_push: the new pair is appended at slot num_elts and
\* sifted up, and the only slots whose content differs after the call are
\* slots on the path from the appended slot to the root; a pushed priority
\* that compares equal to or greater than its parent's stays at the appended
\* slot and no other slot changes
PushFrameStep ==
  last'.op = "push" =>
     LET n   == h.num_elts
         new == [pty |-> last'.pty, elt |-> last'.elt]
         a   == push_appended(h, last'.pty, last'.elt)
     IN /\ a.pty_elts[n] = new
        /\ h' = heapify_up(a, n)
        /\ \A i \in 0..(h.count - 1) :
              i \notin PathToRoot(n) => h'.pty_elts[i] = h.pty_elts[i]
        /\ \A i \in h.count..(h'.count - 1) :
              i # n => h'.pty_elts[i] = Uninit
        /\ (n > 0 /\ cmp_pty(h.pty_elts[(n - 1) \div 2].pty, last'.pty) <= 0)
              => /\ h'.pty_elts[n] = new
                 /\ \A i \in 0..(n - 1) : h'.pty_elts[i] = h.pty_elts[i]
                 /\ \A e \in DOMAIN h.ht : h'.ht[e] = h.ht[e]

PushFrame == [][PushFrameStep]_vars

\* the push of a third pair, of priority 0, has moved the root of priority 1
\* to slot 2 and left slot 1, which is not on the path, as it was
PushFrameWitness ==
  /\ last.op = "push"
  /\ last.n = 2
  /\ last.pty = 0
  /\ h.num_elts = 3
  /\ h.pty_elts[0] = [pty |-> 0, elt |-> last.elt]
  /\ h.pty_elts[1].pty = 1
  /\ h.pty_elts[2].pty = 1
  /\ h.ht[h.pty_elts[1].elt] = 1

\* the slots below slot i in a heap of n slots: the descendants of i
RECURSIVE Descendants(_, _)
Descendants(i, n) ==
  IF i >= n THEN {}
  ELSE LET l == 2 * i + 1
           r == 2 * i + 2
       IN (IF l < n THEN {l} \cup Descendants(l, n) ELSE {})
          \cup (IF r < n THEN {r} \cup Descendants(r, n) ELSE {})

\* the new priority pty keeps slot i of hp in heap order with respect to
\* its parent and its children
KeepsOrder(hp, pty, i) ==
  /\ i > 0 => cmp_pty(hp.pty_elts[(i - 1) \div 2].pty, pty) <= 0
  /\ \A j \in {2 * i + 1, 2 * i + 2} :
        j < hp.num_elts => cmp_pty(pty, hp.pty_elts[j].pty) <= 0

\* C22: frame of heap_update: after heap_update(p', e) with e at slot i,
\* every slot that is neither an ancestor of i, nor i, nor a descendant of i
\* holds the same pair as before the call; no element is moved when p' keeps
\* e in heap order with respect to its parent and its children
UpdateFrameStep ==
  (last'.op = "update" /\ heap_search(h, last'.elt) # NULL) =>
     LET i == h.ht[last'.elt]
         related == PathToRoot(i) \cup Descendants(i, h.num_elts)
     IN /\ h' = heap_update(h, last'.pty, last'.elt)
        /\ \A j \in 0..(h.count - 1) :
              j \notin related => h'.pty_elts[j] = h.pty_elts[j]
        /\ KeepsOrder(h, last'.pty, i) =>
              /\ h'.ht = h.ht
              /\ h'.pty_elts =
                   [h.pty_elts EXCEPT ![i] = [pty |-> last'.pty,
                                              elt |-> last'.elt]]

UpdateFrame == [][UpdateFrameStep]_vars

\* an update has moved the element of slot 1 to the root of a heap of three
\* pairs, and slot 2, neither above nor below slot 1, holds the pair it held
UpdateFrameWitness ==
  /\ last.op = "update"
  /\ last.n = 3
  /\ last.pty = 0
  /\ h.pty_elts[0] = [pty |-> 0, elt |-> last.elt]
  /\ h.pty_elts[1].pty = 1
  /\ h.pty_elts[2].pty = 1
  /\ h.ht[h.pty_elts[1].elt] = 1

\* C29: heap_update is idempotent: a second heap_update(p', e) right after
\* the first leaves the store, num_elts and the index exactly as the first
\* left them, and heap_update(p, e) with p equal to the current priority of
\* e leaves every slot and every index mapping unchanged
UpdateIdempotentStep ==
  (last'.op = "update" /\ heap_search(h, last'.elt) # NULL) =>
     LET once  == heap_update(h, last'.pty, last'.elt)
         twice == heap_update(once, last'.pty, last'.elt)
     IN /\ h' = once
        /\ twice.pty_elts = once.pty_elts
        /\ twice.num_elts = once.num_elts
        /\ twice.ht = once.ht
        /\ twice = once
        /\ last'.pty = h.pty_elts[h.ht[last'.elt]].pty =>
              /\ h'.pty_elts = h.pty_elts
              /\ h'.ht = h.ht
              /\ h' = h

UpdateIdempotent == [][UpdateIdempotentStep]_vars

\* an update has given priority 1 to the element at slot 1 of a heap of
\* three pairs, and a second update with the same arguments changes nothing
UpdateIdempotentWitness ==
  /\ last.op = "update"
  /\ last.n = 3
  /\ last.pty = 1
  /\ h.ht[last.elt] = 1
  /\ h.pty_elts[0].pty = 0
  /\ h.pty_elts[2].pty = 1
  /\ heap_update(h, last.pty, last.elt) = h

\* the hash table calls of swap(hp, i, j), in the order swap makes them:
\* none when i = j, else the element now at slot i, then the one at slot j
swap_steps(hp, i, j) ==
  IF i = j THEN << >>
  ELSE << [fn |-> "insert", elt |-> hp.pty_elts[j].elt, ix |-> i],
          [fn |-> "insert", elt |-> hp.pty_elts[i].elt, ix |-> j] >>

\* heap_pop_steps in which the removal and the decrement come before the
\* re-registration of the swapped elements
heap_pop_steps_remove_first(hp) ==
  IF hp.num_elts = 0 THEN << >>
  ELSE LET n == hp.num_elts
       IN << [fn |-> "remove", elt |-> hp.pty_elts[0].elt, ix |-> n - 1],
             [fn |-> "decrement", elt |-> hp.pty_elts[0].elt, ix |-> n - 1] >>
          \o swap_steps(hp, 0, n - 1)
          \o (IF n - 1 > 0
              THEN << [fn |-> "heapify_down", elt |-> hp.pty_elts[n - 1].elt,
                       ix |-> 0] >>
              ELSE << >>)

\* the steps of heap_pop(hp) on the index and on num_elts, in program order:
\* the hash table calls of swap, the removal of the popped element, the
\* decrement of num_elts, and the sift from the root
heap_pop_steps(hp) ==
  IF hp.num_elts = 0 THEN << >>
  ELSE LET n == hp.num_elts
       IN swap_steps(hp, 0, n - 1)
          \o << [fn |-> "remove", elt |-> hp.pty_elts[0].elt, ix |-> n - 1],
                [fn |-> "decrement", elt |-> hp.pty_elts[0].elt,
                 ix |-> n - 1] >>
          \o (IF n - 1 > 0
              THEN << [fn |-> "heapify_down", elt |-> hp.pty_elts[n - 1].elt,
                       ix |-> 0] >>
              ELSE << >>)

\* the heap after one step of heap_pop_steps
StepOn(hp, s) ==
  IF s.fn = "insert" THEN [hp EXCEPT !.ht = ht_insert(hp.ht, s.elt, s.ix)]
  ELSE IF s.fn = "remove" THEN [hp EXCEPT !.ht = ht_remove(hp.ht, s.elt)]
  ELSE IF s.fn = "decrement" THEN [hp EXCEPT !.num_elts = hp.num_elts - 1]
  ELSE heapify_down(hp, s.ix)

\* the heap after the steps of a sequence, first to last
RECURSIVE Replay(_, _)
Replay(hp, steps) ==
  IF steps = << >> THEN hp
  ELSE Replay(StepOn(hp, Head(steps)), Tail(steps))

\* the store after the three memcpy calls of swap(hp, 0, num_elts - 1)
StoreSwapped(hp) ==
  LET n == hp.num_elts
  IN [hp EXCEPT !.pty_elts = [hp.pty_elts EXCEPT ![0] = hp.pty_elts[n - 1],
                                                 ![n - 1] = hp.pty_elts[0]]]

\* the positions of the steps of function fn in a sequence of steps
StepsAt(steps, fn) == {k \in 1..Len(steps) : steps[k].fn = fn}

\* the positions at which an element is registered at slot 0
RootRegs(steps) == {k \in StepsAt(steps, "insert") : steps[k].ix = 0}

\* C30 as stated: in a heap_pop on a non-empty heap the popped element is
\* removed from the index and num_elts is decremented before the element
\* moved from slot num_elts-1 into the root slot is re-registered at slot 0;
\* the sift from the root runs last and only if the heap is still
\* non-empty; popping the only element performs no swap, no re-registration
\* and no sift
RemoveBeforeReregisterStep ==
  (last'.op = "pop" /\ h.num_elts > 0) =>
     LET steps == heap_pop_steps(h)
     IN /\ \A r \in StepsAt(steps, "remove") \cup StepsAt(steps, "decrement") :
              \A k \in RootRegs(steps) : r < k
        /\ \A k \in StepsAt(steps, "heapify_down") : k = Len(steps)
        /\ StepsAt(steps, "heapify_down") # {} <=> h.num_elts - 1 > 0
        /\ h.num_elts = 1 =>
              StepsAt(steps, "insert") \cup StepsAt(steps, "heapify_down") = {}

RemoveBeforeReregister == [][RemoveBeforeReregisterStep]_vars

\* C30, amended: in a heap_pop on a heap of two or more elements swap
\* re-registers the element moved into the root at slot 0, and the popped
\* element at slot num_elts-1, before the popped element is removed from
\* the index and num_elts is decremented; removal comes before the
\* decrement; the sift from the root runs last and only if the heap is
\* still non-empty; popping the only element performs no swap, no
\* re-registration and no sift; the steps in this order give the heap that
\* heap_pop leaves
ReregisterBeforeRemoveStep ==
  (last'.op = "pop" /\ h.num_elts > 0) =>
     LET steps == heap_pop_steps(h)
         n     == h.num_elts
     IN /\ h' = Replay(StoreSwapped(h), steps)
        /\ Cardinality(StepsAt(steps, "remove")) = 1
        /\ Cardinality(StepsAt(steps, "decrement")) = 1
        /\ \A r \in StepsAt(steps, "remove") :
              /\ steps[r].elt = out'.elt
              /\ \A k \in StepsAt(steps, "insert") : k < r
              /\ \A d \in StepsAt(steps, "decrement") : r < d
        /\ n > 1 =>
              /\ Cardinality(RootRegs(steps)) = 1
              /\ \A k \in RootRegs(steps) : steps[k].elt = h.pty_elts[n - 1].elt
              /\ \E k \in StepsAt(steps, "insert") :
                    steps[k].elt = out'.elt /\ steps[k].ix = n - 1
        /\ \A k \in StepsAt(steps, "heapify_down") :
              k = Len(steps) /\ steps[k].ix = 0
        /\ StepsAt(steps, "heapify_down") # {} <=> n - 1 > 0
        /\ n = 1 =>
              StepsAt(steps, "insert") \cup StepsAt(steps, "heapify_down") = {}

ReregisterBeforeRemove == [][ReregisterBeforeRemoveStep]_vars

\* a pop has taken the root of a heap of three pairs; the element that was
\* in the last slot was moved into the root and sifted down from there
ReregisterBeforeRemoveWitness ==
  /\ last.op = "pop"
  /\ last.n = 3
  /\ h.num_elts = 2
  /\ out.pty = 0
  /\ h.pty_elts[0].pty = 0
  /\ h.pty_elts[1].pty = 1
  /\ h.pty_elts[2].elt = out.elt

(* SpecOverflow: a caller that pushes one new element after the other      *)

\* heap_push of the next element that was never pushed
PushNext(pty) == Push(pty, h.num_elts + 1)

NextOverflow ==
  \E p \in Ptys :
     PushNext(p) /\ UNCHANGED <<refvars, freshvars, countvars, restvars>>

SpecOverflow == Init /\ [][NextOverflow]_vars

\* C23: capacity overflow is fatal and atomic: when heap_push finds count
\* equal to num_elts and twice count exceeds the largest size_t value, the
\* process is terminated before the store, num_elts or the index is
\* modified; count never wraps around to a smaller value
OverflowFatalStep ==
  /\ (last'.op = "push" /\ h.count = h.num_elts /\ 2 * h.count > SzMod - 1)
        => /\ proc' = "exited"
           /\ h'.pty_elts = h.pty_elts
           /\ h'.num_elts = h.num_elts
           /\ h'.ht = h.ht
           /\ h'.count = h.count
  /\ h'.count >= h.count
  /\ h'.count <= SzMod - 1
  /\ DOMAIN h'.pty_elts = 0..(h'.count - 1)

OverflowFatal == [][OverflowFatalStep]_vars

\* a push on a full store whose capacity cannot be doubled has ended the
\* process; the heap holds every element pushed before
OverflowFatalWitness ==
  /\ proc = "exited"
  /\ last.op = "push"
  /\ last.n = h.num_elts
  /\ h.count = h.num_elts
  /\ 2 * h.count = SzMod
  /\ DOMAIN h.ht = 1..h.num_elts

\* in_heap marks exactly the vertices in the heap of the run, each of which
\* is in one slot only
InHeapExact(d) ==
  /\ \A v \in Vts : d.in_heap[v] <=> v \in EltsIn(d.h)
  /\ \A i, j \in 0..(d.h.num_elts - 1) :
        d.h.pty_elts[i].elt = d.h.pty_elts[j].elt => i = j
  /\ d.h.num_elts <= NumVts

\* an iteration of the for loop that relaxes an edge to v calls heap update
\* if v is in the heap, and heap push if it is not
EdgeCallStep ==
  dj.pc = "for" =>
     LET v      == dj.adj[dj.u][dj.i].v
         wt_buf == add_uint64_fn(dj.dist[dj.u], dj.adj[dj.u][dj.i].wt)
         relax  == dj.prev[v] = nr \/ cmp_uint64_fn(dj.dist[v], wt_buf) > 0
     IN /\ (relax /\ v \in EltsIn(dj.h))
              => /\ dj'.h = heap_update(dj.h, wt_buf, v)
                 /\ dj'.h.num_elts = dj.h.num_elts
        /\ (relax /\ v \notin EltsIn(dj.h))
              => /\ dj'.h = heap_push(dj.h, wt_buf, v)
                 /\ dj'.h.num_elts = dj.h.num_elts + 1
        /\ ~relax => dj'.h = dj.h

\* C24: Dijkstra membership protocol: at every iteration of the main loop
\* in_heap[v] is true iff vertex v is in the heap; heap push is only called
\* for a vertex not in the heap, heap update only for a vertex in the heap,
\* and no vertex is in the heap twice (num_elts <= num_vts)
MembershipProtocol ==
  /\ [](dj.pc \in {"loop", "for"} => InHeapExact(dj))
  /\ [][EdgeCallStep]_vars

\* at the top of the main loop, after the pop of the start vertex and two
\* pushes: the two other vertices are in the heap and marked, the popped
\* start vertex is not
MembershipProtocolWitness ==
  /\ dj.pc = "loop"
  /\ dj.h.num_elts = 2
  /\ ~dj.in_heap[dj.start]
  /\ dj.start \notin EltsIn(dj.h)
  /\ \A v \in Vts \ {dj.start} : dj.in_heap[v] /\ v \in EltsIn(dj.h)

\* the priority stored with every vertex in the heap of the run is its dist
PtyIsDist(d) ==
  \A i \in 0..(d.h.num_elts - 1) :
     d.h.pty_elts[i].pty = d.dist[d.h.pty_elts[i].elt]

\* the pop of an iteration of the while loop writes dist[u] of the popped
\* vertex u into wt_buf
PoppedWeightStep ==
  (dj.pc = "loop" /\ dj.h.num_elts > 0) =>
     LET r == heap_pop(dj.h, Uninit.pty, dj.u)
     IN /\ dj'.u = r.elt
        /\ r.pty = dj.dist[r.elt]
        /\ r.pty = dj'.dist[dj'.u]

\* C26: Dijkstra priority/dist agreement: whenever control is at the top of
\* the main loop, the priority stored in the heap for every vertex v in the
\* heap equals dist[v], so the weight popped into wt_buf equals dist[u] of
\* the popped vertex u
PriorityDistAgreement ==
  /\ [](dj.pc = "loop" => PtyIsDist(dj))
  /\ [][PoppedWeightStep]_vars

\* at the top of the main loop, vertex 1 is in the heap with priority 0: it
\* was pushed with the weight 1 of the edge from the start vertex 0 and
\* updated to 0 through vertex 2
PriorityDistAgreementWitness ==
  /\ dj.pc = "loop"
  /\ dj.start = 0
  /\ dj.adj[0] = <<[v |-> 1, wt |-> 1], [v |-> 2, wt |-> 0]>>
  /\ dj.adj[2] = <<[v |-> 1, wt |-> 0]>>
  /\ dj.u = 2
  /\ dj.h.num_elts = 1
  /\ dj.h.pty_elts[0] = [pty |-> 0, elt |-> 1]
  /\ dj.dist[1] = 0

\* the number of heap pops of the run, over all vertices
RECURSIVE PopsUpTo(_, _)
PopsUpTo(c, n) == IF n = 0 THEN 0 ELSE c.pops[n - 1] + PopsUpTo(c, n - 1)

\* every vertex was pushed at most once and popped at most once, and there
\* were at most num_vts pops; the run returns with an empty heap
PushedPoppedOnce ==
  /\ \A v \in Vts : djcalls.pushes[v] <= 1 /\ djcalls.pops[v] <= 1
  /\ \A v \in Vts : djcalls.pops[v] <= djcalls.pushes[v]
  /\ PopsUpTo(djcalls, NumVts) <= NumVts
  /\ dj.pc = "done" =>
        /\ dj.h.num_elts = 0
        /\ \A v \in Vts : djcalls.pops[v] = djcalls.pushes[v]

\* dist[v] and prev[v] keep their values once v was popped
PoppedFinalStep ==
  dj.pc \in {"loop", "for"} =>
     \A v \in Vts :
        djcalls.pops[v] > 0 => /\ dj'.dist[v] = dj.dist[v]
                               /\ dj'.prev[v] = dj.prev[v]

\* C25: Dijkstra termination: with non-negative weights on a finite graph
\* every vertex is pushed at most once and popped at most once, dist[v] and
\* prev[v] are never modified after v has been popped, and the main loop
\* ends, with the heap empty, after at most num_vts pops
DijkstraTerminates ==
  /\ []PushedPoppedOnce
  /\ [][PoppedFinalStep]_vars
  /\ (dj.pc \in {"loop", "for"} ~> dj.pc = "done")

\* a run has returned after three pops; vertex 1 was pushed once, updated
\* through vertex 2 while in the heap, and popped once
DijkstraTerminatesWitness ==
  /\ dj.pc = "done"
  /\ dj.start = 0
  /\ dj.adj[0] = <<[v |-> 1, wt |-> 1], [v |-> 2, wt |-> 0]>>
  /\ dj.adj[1] = <<[v |-> 0, wt |-> 0], [v |-> 2, wt |-> 0]>>
  /\ dj.adj[2] = <<[v |-> 1, wt |-> 0]>>
  /\ \A v \in {0, 1, 2} : djcalls.pushes[v] = 1 /\ djcalls.pops[v] = 1
  /\ PopsUpTo(djcalls, NumVts) = 3
  /\ dj.dist[1] = 0

(* SpecCompare: the comparison functions of the drivers and of            *)
(* dijkstra-uint64.c, called on any two uint64_t values                    *)

InitCompare ==
  /\ \E m \in 1..MaxMinNum : h = heap_init(m)
  /\ out = CallerInit
  /\ ret = NULL
  /\ last = [op |-> "init", pty |-> 0, elt |-> 0, n |-> 0]
  /\ proc = "running"
  /\ given = [e \in Elts |-> NULL]
  /\ oracle = <<>>
  /\ oout = RefInit
  /\ fh = heap_init(1)
  /\ fout = CallerInit
  /\ fret = NULL
  /\ emptied = FALSE
  /\ npush = 0
  /\ npop = 0
  /\ rel = RelInit(FALSE)
  /\ lay = LayInit(1, 1)
  /\ dj = DjIdle
  /\ djcalls = DjCallsInit
  /\ \E a, b \in 0..(U64Mod - 1) :
        cmpcall = [a |-> a, b |-> b, fn |-> "none", r |-> 0]

\* a call of cmp_uint64_fn of the driver of prim_uint64
CompareWt ==
  /\ cmpcall.fn = "none"
  /\ cmpcall' = [cmpcall EXCEPT
                   !.fn = "cmp_uint64_fn",
                   !.r = prim_cmp_uint64_fn(cmpcall.a, cmpcall.b)]

\* a call of cmp_vt_fn
CompareVt ==
  /\ cmpcall.fn = "none"
  /\ cmpcall' = [cmpcall EXCEPT
                   !.fn = "cmp_vt_fn",
                   !.r = cmp_vt_fn(cmpcall.a, cmpcall.b)]

NextCompare ==
  \/ CompareWt
        /\ UNCHANGED <<heapvars, refvars, freshvars, countvars, freevars,
                       layoutvars, dijkstravars>>
  \/ CompareVt
        /\ UNCHANGED <<heapvars, refvars, freshvars, countvars, freevars,
                       layoutvars, dijkstravars>>

SpecCompare == InitCompare /\ [][NextCompare]_vars

\* C27: the weight comparator cmp_uint64_fn of the Prim driver satisfies the
\* three-way comparator contract for all pairs of uint64_t weights: negative
\* iff a < b, zero iff a = b, positive iff a > b
PrimCmpThreeWay ==
  cmpcall.fn = "cmp_uint64_fn" =>
     /\ cmpcall.r < 0 <=> cmpcall.a < cmpcall.b
     /\ cmpcall.r = 0 <=> cmpcall.a = cmpcall.b
     /\ cmpcall.r > 0 <=> cmpcall.a > cmpcall.b

\* the contract holds for the pairs of weights whose difference is an int
\* value
PrimCmpThreeWaySmall ==
  (/\ cmpcall.fn = "cmp_uint64_fn"
   /\ cmpcall.a - cmpcall.b < IntMod \div 2
   /\ cmpcall.b - cmpcall.a <= IntMod \div 2) =>
     /\ cmpcall.r < 0 <=> cmpcall.a < cmpcall.b
     /\ cmpcall.r = 0 <=> cmpcall.a = cmpcall.b
     /\ cmpcall.r > 0 <=> cmpcall.a > cmpcall.b

\* C28: under the asserted bound num_vts < l_num_vts, cmp_vt_fn returns 0
\* iff the two vertices are equal, so two distinct vertices are never
\* treated as the same heap element
VtCmpZero ==
  (/\ cmpcall.fn = "cmp_vt_fn"
   /\ cmpcall.a < l_num_vts - 1
   /\ cmpcall.b < l_num_vts - 1) =>
     (cmpcall.r = 0 <=> cmpcall.a = cmpcall.b)

\* cmp_vt_fn was called on the largest vertex of the largest graph and on
\* vertex 0: the difference is not an int value and the result is not 0
VtCmpZeroWitness ==
  /\ cmpcall.fn = "cmp_vt_fn"
  /\ cmpcall.a = l_num_vts - 2
  /\ cmpcall.b = 0
  /\ cmpcall.r < 0

====
